---- MODULE Spec2Model ----
(***************************************************************************)
(* A model of src/daemon.py: the Daemon lifecycle (start, daemonize, stop, *)
(* the PID file), the AgentSupervisor fork loop and its SIGTERM handler.   *)
(* Each OS process is an entry of proc; a step of a process is one action. *)
(***************************************************************************)
EXTENDS Integers, Sequences, FiniteSets, TLC

\* ------------------------------------------------------------------ bounds
MaxPid == 6          \* PIDs handed out by fork and to command-line processes: 2..MaxPid
MaxStarts == 1       \* invocations of Daemon.start() from the command line
MaxStops == 2        \* invocations of Daemon.stop() from the command line
MaxEnvSig == 2       \* SIGTERMs sent by someone other than stop() (kill, shutdown)
MaxPidValue == 120   \* PID values write_pidfile is tried with: 1..MaxPidValue
MaxTextLen == 2      \* length of the texts a PID file may hold to begin with
MaxChunks == 2       \* chunks of output a spawned command writes
MaxNodes == 2        \* nodes the Kubernetes API lists
MaxPods == 2         \* pods the Kubernetes API lists
MaxContainers == 2   \* container statuses of one pod
MaxConfigured == 3   \* saved searches in the configuration
MaxCalls == 2        \* calls of update_searches

\* ------------------------------------------------------- program constants
RESTART_EXIT_STATUS == 5
SIGTERM == 15
\* The status of a process a signal killed (no exit code of its own).
KilledStatus == 0 - SIGTERM

Pids == 2..MaxPid
NoPid == 0                \* "no such attribute" / fork returned 0 / not forked yet

\* The exit statuses run() (or child_func) may end the process with.
ExitStatuses == {0, 1, RESTART_EXIT_STATUS}

\* ------------------------------------------------------------ PID file text
\* The PID file holds text; a text is a sequence of one-character strings.
DigitChar == <<"0", "1", "2", "3", "4", "5", "6", "7", "8", "9">>
IsDigit(c) == \E d \in 1..10 : DigitChar[d] = c
DigitVal(c) == (CHOOSE d \in 1..10 : DigitChar[d] = c) - 1
IsSpace(c) == c \in {" ", "\n"}

\* str(n) for an integer n.
RECURSIVE NatToStr(_)
NatToStr(n) == IF n < 10 THEN <<DigitChar[n + 1]>>
               ELSE NatToStr(n \div 10) \o <<DigitChar[(n % 10) + 1]>>
IntToStr(n) == IF n < 0 THEN <<"-">> \o NatToStr(0 - n) ELSE NatToStr(n)

\* s.strip()
RECURSIVE LStrip(_)
LStrip(s) == IF s # <<>> /\ IsSpace(Head(s)) THEN LStrip(Tail(s)) ELSE s
RECURSIVE RStrip(_)
RStrip(s) == IF s # <<>> /\ IsSpace(s[Len(s)]) THEN RStrip(SubSeq(s, 1, Len(s) - 1)) ELSE s
Strip(s) == RStrip(LStrip(s))

\* Variant: the digits read in base 8.
RECURSIVE DigitsValBase8(_)
DigitsValBase8(s) == IF s = <<>> THEN 0
                     ELSE 8 * DigitsValBase8(SubSeq(s, 1, Len(s) - 1)) + DigitVal(s[Len(s)])

RECURSIVE DigitsVal(_)
DigitsVal(s) == IF s = <<>> THEN 0
                ELSE 10 * DigitsVal(SubSeq(s, 1, Len(s) - 1)) + DigitVal(s[Len(s)])
AllDigits(s) == s # <<>> /\ \A i \in 1..Len(s) : IsDigit(s[i])

\* The value pid() returns: None, or an integer.
None == [ok |-> FALSE, v |-> 0]
Some(n) == [ok |-> TRUE, v |-> n]

\* int(text): an optional sign and decimal digits; ValueError otherwise (ok = FALSE).
PyInt(s) ==
    IF s # <<>> /\ Head(s) \in {"-", "+"}
    THEN IF AllDigits(Tail(s))
         THEN Some(IF Head(s) = "-" THEN 0 - DigitsVal(Tail(s)) ELSE DigitsVal(Tail(s)))
         ELSE None
    ELSE IF AllDigits(s) THEN Some(DigitsVal(s)) ELSE None

\* The file system's view of the PID file: no file, or a file with a text.
Absent == [exists |-> FALSE, text |-> <<>>]
File(s) == [exists |-> TRUE, text |-> s]

\* Python 2 orders None below every integer and treats None and 0 as false.
PyTruthy(r) == r.ok /\ r.v # 0
\* Variant of "pid > 1": "pid > 0".
PyGreaterThanZero(r) == r.ok /\ r.v > 0
PyGreaterThanOne(r) == r.ok /\ r.v > 1
\* Variant: a comparison in which None is not below zero.
PyLessThanZeroOfInt(r) == r.ok /\ r.v < 0
PyLessThanZero(r) == ~r.ok \/ r.v < 0

\* ----------------------------------------------------------------- state
VARIABLES
    proc,        \* the process table: PID -> the process's state
    pidfile,     \* the PID file
    autorestart, \* Daemon.autorestart of this installation
    nextPid,     \* the next PID the kernel hands out
    written,     \* history: the PID file was written since stop() last removed it
    nStarts, nStops, nEnvSig   \* how many commands / outside signals so far

vars == <<proc, pidfile, autorestart, nextPid, written, nStarts, nStops, nEnvSig>>

\* A slot of the process table no process has used yet.
Unborn == [
    life |-> "unborn",       \* unborn | alive | zombie (exited, not reaped) | gone
    prog |-> "none",         \* start | stop | sup | other: what the process was launched for
    pc |-> "none",           \* the place in the code the process is at
    ppid |-> NoPid, pgid |-> NoPid,
    handler |-> "default",   \* the SIGTERM disposition: default | sup (_handle_sigterm)
    sig |-> FALSE,           \* a SIGTERM is pending
    atexit |-> FALSE,        \* delpid is registered with atexit
    child_pid |-> NoPid,     \* AgentSupervisor.child_pid (NoPid: no such attribute)
    need_stop |-> FALSE,     \* AgentSupervisor.need_stop
    foreground |-> FALSE,    \* start()'s argument
    parent_func |-> FALSE, child_func |-> FALSE,   \* whether the hooks are supplied
    pid |-> None,            \* the local pid of start() / stop(): what pid() returned
    fork_pid |-> NoPid,      \* the local pid of AgentSupervisor.start(): what fork returned
    wstatus |-> -1,          \* the status the last waitpid reported (-1: none yet)
    status |-> -1,           \* the process's own exit status (-1: has not exited)
    ended |-> "",            \* history: the place in the code that ended the process
    stale_start |-> FALSE,   \* history: start() found a PID that is no live agent process
    fresh |-> FALSE,         \* history: stop() began with no write since the last removal
    forked |-> 0,            \* history: forks this process has made
    hook_calls |-> 0,        \* history: calls of parent_func in this process
    may_signal |-> TRUE,     \* the caller of stop() is allowed to signal the daemon
    kills |-> <<>>,          \* history: the os.kill calls of stop(), in order
    message |-> <<>>,        \* the local message of status(): <<kind>> or <<kind, pid>>
    exit_code |-> -1,        \* the local exit_code of status() (-1: not assigned)
    cwd |-> ".",             \* the working directory: "." (the caller's) or "/"
    wrote |-> -1,            \* history: the PID the last write_pidfile here recorded
    redirect |-> FALSE,      \* execute()'s argument redirect_std_streams
    tracked |-> NoPid,       \* ProcessRunner._process (NoPid: None)
    running |-> FALSE,       \* ProcessRunner._running
    sigint |-> FALSE,        \* a SIGINT is pending
    cap_out |-> <<>>,        \* the temporary file that captures the child's stdout
    cap_err |-> <<>>,        \* the temporary file that captures the child's stderr
    stream |-> <<>>,         \* history: the writes to this process's stdout and stderr
    result |-> None,         \* what execute() returned (None: it has not returned)
    nout |-> 0,              \* history: chunks of output this process has produced
    nodes_list |-> <<>>,     \* the 'items' KubeUtil.retrieve_nodes_list() answers
    pods_list |-> <<>>,      \* the 'items' KubeUtil.retrieve_pods_list() answers
    topology |-> <<>>,       \* the topology instances the check has collected
    searches |-> <<>>,       \* SavedSearches.searches
    matches |-> <<>>,        \* SavedSearches.matches
    configured |-> <<>>,     \* history: the saved searches SavedSearches was built with
    observed |-> {},         \* history: the names the last update_searches was given
    calls |-> 0              \* history: calls of update_searches
]

Alive(p) == proc[p].life = "alive"
\* A PID the kernel still knows: os.kill and os.getpgid succeed on it.
Exists(p) == p \in Pids /\ proc[p].life \in {"alive", "zombie"}

\* utils.process.is_my_process: a live process with that PID that is an agent process.
is_my_process(n) == n \in Pids /\ proc[n].life = "alive" /\ proc[n].prog # "other"

\* Daemon.pid(): IOError (no file) and ValueError (not an integer) give None.
ReadPid(f) == IF f.exists THEN PyInt(Strip(f.text)) ELSE None

\* ------------------------------------------------------------------ Init
\* What the PID file may hold before any command runs: nothing, an empty or
\* corrupt file, or the PID a daemon of an earlier boot left behind.
StalePid == MaxPid + 2
InitialFiles ==
    {Absent, File(<<>>), File(<<"x">>), File(<<"0">>), File(<<"1">>),
     File(<<"-", "1">>), File(IntToStr(StalePid)),
     File(<<" ">> \o IntToStr(StalePid) \o <<"\n">>)}

\* An unrelated live process whose PID a stale PID file happens to name.
Other == [Unborn EXCEPT !.life = "alive", !.prog = "other", !.pc = "other", !.pgid = 2]

\* A daemon an earlier start() left running: without auto-restart the
\* grandchild in run() (its parents gone); with auto-restart the supervising
\* parent, polling, and its child in run().
Worker(parent, group) ==
    [Unborn EXCEPT !.life = "alive", !.prog = "start", !.pc = "run", !.atexit = TRUE,
                   !.cwd = "/",
                   !.ppid = parent, !.pgid = group,
                   !.handler = IF parent = NoPid THEN "default" ELSE "sup"]
Supervisor(child) ==
    [Unborn EXCEPT !.life = "alive", !.prog = "start", !.pc = "sup_poll", !.handler = "sup",
                   !.cwd = "/",
                   !.ppid = StalePid, !.pgid = 2, !.child_pid = child, !.fork_pid = child,
                   !.forked = 1]

InitWorld(world) ==
    /\ proc = [p \in Pids |->
          CASE world = "other" /\ p = 2 -> Other
            [] world = "daemon" /\ ~autorestart /\ p = 2 -> Worker(NoPid, StalePid)
            [] world = "daemon" /\ autorestart /\ p = 2 -> Supervisor(3)
            [] world = "daemon" /\ autorestart /\ p = 3 -> Worker(2, 2)
            [] OTHER -> Unborn]
    /\ nextPid = CASE world = "none" -> 2
                    [] world = "daemon" /\ autorestart -> 4
                    [] OTHER -> 3
    /\ pidfile \in CASE world = "none" -> InitialFiles
                     [] world = "daemon" /\ autorestart -> {File(IntToStr(3))}
                     [] OTHER -> {File(IntToStr(2))}

Init ==
    /\ autorestart \in BOOLEAN
    /\ \E world \in {"none", "other", "daemon"} : InitWorld(world)
    /\ written = TRUE
    /\ nStarts = 0 /\ nStops = 0 /\ nEnvSig = 0

\* --------------------------------------------------------------- helpers
\* What the process table keeps of a process that has ended: while it is a
\* zombie, its parent, group and status; once reaped, its status alone.
Corpse(r, st, why) == [Unborn EXCEPT !.life = "zombie", !.prog = r.prog, !.pc = "exited",
                                     !.ppid = r.ppid, !.pgid = r.pgid, !.status = st,
                                     !.ended = why]
Reaped(r) == [Unborn EXCEPT !.life = "gone", !.prog = r.prog, !.pc = "exited",
                            !.ppid = r.ppid, !.status = r.status, !.ended = r.ended]

\* Process p ends with status st, its exit removing the PID file or not.
\* The process stays a zombie while its parent lives; the zombies it leaves
\* behind are reaped by init.
Terminated(p, st, why, removes_pidfile) ==
    /\ proc' = [q \in Pids |->
          IF q = p
          THEN IF proc[p].ppid \in Pids /\ Alive(proc[p].ppid)
               THEN Corpse(proc[p], st, why) ELSE Reaped(Corpse(proc[p], st, why))
          ELSE IF proc[q].ppid = p /\ proc[q].life = "zombie"
               THEN Reaped(proc[q])
               ELSE proc[q]]
    /\ pidfile' = IF removes_pidfile THEN Absent ELSE pidfile

\* sys.exit(st) in process p (also: an uncaught exception, a return of the main
\* program): the atexit callbacks run, so delpid removes the PID file if registered.
SysExit(p, st, why) == Terminated(p, st, why, proc[p].atexit)

\* Process p is killed by a signal: no atexit callback runs.
Killed(p) == Terminated(p, KilledStatus, "killed", FALSE)

\* os.fork() in process p succeeded: the child is a copy of p, at child_pc,
\* with no pending signal; p goes on at parent_pc with the child's PID in fork_pid.
Fork(p, parent_pc, child_pc) ==
    /\ nextPid \in Pids
    /\ proc' = [proc EXCEPT
          ![p] = [@ EXCEPT !.pc = parent_pc, !.fork_pid = nextPid, !.forked = @ + 1],
          ![nextPid] = [proc[p] EXCEPT !.pc = child_pc, !.ppid = p, !.sig = FALSE,
                                       !.fork_pid = NoPid, !.forked = 0,
                                       !.hook_calls = 0, !.kills = <<>>]]
    /\ nextPid' = nextPid + 1

At(p, where) == Alive(p) /\ proc[p].pc = where

\* ------------------------------------------------ the command line (caller)
\* One command runs at a time: the next is typed once the previous one has
\* returned to the shell (exited, or is the foreground daemon in run()).
CommandRunning ==
    \E p \in Pids : /\ Alive(p) /\ proc[p].ppid = NoPid
                     /\ proc[p].prog \in {"start", "stop"}
                     /\ proc[p].pc # "run"

\* The forks a process in start() has still to make before run(): two in
\* daemonize() (the second one is AgentSupervisor's with auto-restart), none in
\* the foreground.
ForksAhead(r) ==
    IF r.life # "alive" \/ r.prog # "start" THEN 0
    ELSE CASE r.pc \in {"start", "start_check"} -> IF r.foreground THEN 0 ELSE 2
           [] r.pc = "fork1" -> 2
           [] r.pc \in {"decouple", "fork2", "sup_start", "sup_loop", "sup_fork"} -> 1
           [] OTHER -> 0

RECURSIVE ForksAheadFrom(_)
ForksAheadFrom(p) == IF p > MaxPid THEN 0 ELSE ForksAhead(proc[p]) + ForksAheadFrom(p + 1)

\* The model has PIDs left for n new processes and the forks already under way.
PidsLeftFor(n) == nextPid + n - 1 + ForksAheadFrom(2) <= MaxPid

\* The shell launches a process of its own group that calls Daemon.start(foreground).
InvokeStart(fg) ==
    /\ nStarts < MaxStarts /\ ~CommandRunning
    /\ PidsLeftFor(IF fg THEN 1 ELSE 3)
    /\ proc' = [proc EXCEPT ![nextPid] =
          [Unborn EXCEPT !.life = "alive", !.prog = "start", !.pc = "start",
                         !.pgid = nextPid, !.foreground = fg]]
    /\ nextPid' = nextPid + 1 /\ nStarts' = nStarts + 1
    /\ UNCHANGED <<pidfile, written, autorestart, nStops, nEnvSig>>

\* ------------------------------------------------------------ Daemon.start
\* start(): pid = self.pid()
StartReadPid(p) ==
    /\ At(p, "start")
    /\ proc' = [proc EXCEPT ![p] = [@ EXCEPT !.pc = "start_check", !.pid = ReadPid(pidfile)]]
    /\ UNCHANGED <<pidfile, written, autorestart, nextPid, nStarts, nStops, nEnvSig>>

\* start(): another instance is running: log and sys.exit(1).
StartRefuses(p) == PyTruthy(proc[p].pid) /\ is_my_process(proc[p].pid.v)

\* Variant: delpid already registered when start() refuses.
StartRefuseAfterRegister(p) ==
    /\ At(p, "start_check") /\ StartRefuses(p)
    /\ Terminated(p, 1, "refused", TRUE)
    /\ UNCHANGED <<written, autorestart, nextPid, nStarts, nStops, nEnvSig>>

StartRefuse(p) ==
    /\ At(p, "start_check") /\ StartRefuses(p)
    /\ SysExit(p, 1, "refused")
    /\ UNCHANGED <<written, autorestart, nextPid, nStarts, nStops, nEnvSig>>

\* start(): no PID, or a stale one (warn): daemonize unless foreground.
StartProceed(p) ==
    /\ At(p, "start_check") /\ ~StartRefuses(p)
    /\ proc' = [proc EXCEPT ![p] = [@ EXCEPT
          !.pid = None, !.stale_start = proc[p].pid.ok,
          !.pc = IF proc[p].foreground THEN "write_pidfile" ELSE "fork1"]]
    /\ UNCHANGED <<pidfile, written, autorestart, nextPid, nStarts, nStops, nEnvSig>>

\* -------------------------------------------------------- Daemon.daemonize
\* daemonize(): the first fork; the child goes on, the parent is left to exit.
DaemonizeFork1(p) ==
    /\ At(p, "fork1")
    /\ Fork(p, "exit_parent", "decouple")
    /\ UNCHANGED <<pidfile, written, autorestart, nStarts, nStops, nEnvSig>>

\* Variant: a parent that goes on after its fork instead of exiting.
DaemonizeParentGoesOn(p) ==
    /\ At(p, "exit_parent")
    /\ proc' = [proc EXCEPT ![p] = [@ EXCEPT !.pc = "write_pidfile"]]
    /\ UNCHANGED <<pidfile, written, autorestart, nextPid, nStarts, nStops, nEnvSig>>

\* daemonize(): sys.exit(0) of the first parent and of the second parent.
DaemonizeParentExit(p) ==
    /\ At(p, "exit_parent")
    /\ SysExit(p, 0, "detached")
    /\ UNCHANGED <<written, autorestart, nextPid, nStarts, nStops, nEnvSig>>

\* daemonize(): a fork raised OSError: log and sys.exit(1).
DaemonizeForkFails(p) ==
    /\ Alive(p) /\ proc[p].pc \in {"fork1", "fork2"}
    /\ SysExit(p, 1, "fork_failed")
    /\ UNCHANGED <<written, autorestart, nextPid, nStarts, nStops, nEnvSig>>

\* Variant: daemonize() doing its second fork whatever autorestart says.
DaemonizeDecoupleThenFork(p) ==
    /\ At(p, "decouple")
    /\ proc' = [proc EXCEPT ![p] = [@ EXCEPT
          !.cwd = "/", !.pgid = p, !.pc = "fork2"]]
    /\ UNCHANGED <<pidfile, written, autorestart, nextPid, nStarts, nStops, nEnvSig>>

\* daemonize(): os.chdir("/"); os.setsid(): the process leads a new session and
\* group. Then the supervisor (auto-restart) or the second fork.
DaemonizeDecouple(p) ==
    /\ At(p, "decouple")
    /\ proc' = [proc EXCEPT ![p] = [@ EXCEPT
          !.cwd = "/", !.pgid = p, !.pc = IF autorestart THEN "sup_start" ELSE "fork2"]]
    /\ UNCHANGED <<pidfile, written, autorestart, nextPid, nStarts, nStops, nEnvSig>>

\* daemonize(): the second fork; the grandchild redirects its streams and returns
\* to start().
DaemonizeFork2(p) ==
    /\ At(p, "fork2")
    /\ Fork(p, "exit_parent", "write_pidfile")
    /\ UNCHANGED <<pidfile, written, autorestart, nStarts, nStops, nEnvSig>>

\* ----------------------------------------------------- Daemon.write_pidfile
\* write_pidfile(): atexit.register(self.delpid), then str(os.getpid()) is written.
\* Variant: the PID written is the one of the process that forked the writer.
write_pidfile_of_parent(p) ==
    /\ At(p, "write_pidfile")
    /\ proc' = [proc EXCEPT ![p] = [@ EXCEPT !.atexit = TRUE, !.pc = "run"]]
    /\ pidfile' = File(IntToStr(proc[p].ppid))
    /\ written' = TRUE
    /\ UNCHANGED <<autorestart, nextPid, nStarts, nStops, nEnvSig>>

write_pidfile(p) ==
    /\ At(p, "write_pidfile")
    /\ proc' = [proc EXCEPT ![p] = [@ EXCEPT !.atexit = TRUE, !.pc = "run"]]
    /\ pidfile' = File(IntToStr(p))
    /\ written' = TRUE
    /\ UNCHANGED <<autorestart, nextPid, nStarts, nStops, nEnvSig>>

\* Variant: a failed write that is logged and survived.
WritePidfileFailsAndGoesOn(p) ==
    /\ At(p, "write_pidfile")
    /\ proc' = [proc EXCEPT ![p] = [@ EXCEPT !.atexit = TRUE, !.pc = "run"]]
    /\ UNCHANGED <<pidfile, written, autorestart, nextPid, nStarts, nStops, nEnvSig>>

\* write_pidfile(): the write raised: log and sys.exit(1); delpid, registered
\* just before, runs and removes whatever file is there.
WritePidfileFails(p) ==
    /\ At(p, "write_pidfile")
    /\ Terminated(p, 1, "write_failed", TRUE)
    /\ UNCHANGED <<written, autorestart, nextPid, nStarts, nStops, nEnvSig>>

\* ------------------------------------------------------------- Daemon.run
\* run() ends the process: sys.exit(st), a return (0) or an exception (1).
RunExits(p, st) ==
    /\ Alive(p) /\ proc[p].pc \in {"run", "child_func"}
    /\ SysExit(p, st, "run")
    /\ UNCHANGED <<written, autorestart, nextPid, nStarts, nStops, nEnvSig>>

\* The worker crashes: a signal it cannot catch kills it.
RunKilled(p) ==
    /\ Alive(p) /\ proc[p].pc \in {"run", "child_func"}
    /\ Killed(p)
    /\ UNCHANGED <<written, autorestart, nextPid, nStarts, nStops, nEnvSig>>

\* ------------------------------------------------- AgentSupervisor.start
\* A caller runs AgentSupervisor.start(parent_func, child_func) itself, with a
\* child_func that ends the child and a parent_func that returns.
InitSup ==
    /\ autorestart = FALSE /\ pidfile = Absent
    /\ proc = [p \in Pids |->
          IF p = 2
          THEN [Unborn EXCEPT !.life = "alive", !.prog = "sup", !.pc = "sup_start",
                              !.pgid = 2, !.parent_func = TRUE, !.child_func = TRUE]
          ELSE Unborn]
    /\ nextPid = 3
    /\ written = TRUE
    /\ nStarts = 1 /\ nStops = 0 /\ nEnvSig = 0

\* start(): signal.signal(SIGTERM, cls._handle_sigterm); cls.need_stop = False
SupStart(p) ==
    /\ At(p, "sup_start")
    /\ proc' = [proc EXCEPT ![p] = [@ EXCEPT
          !.handler = "sup", !.need_stop = FALSE, !.pc = "sup_loop"]]
    /\ UNCHANGED <<pidfile, written, autorestart, nextPid, nStarts, nStops, nEnvSig>>

\* Variant: a loop that keeps the attribute from one iteration to the next.
SupKeepChild(p) ==
    /\ At(p, "sup_loop")
    /\ proc' = [proc EXCEPT ![p] = [@ EXCEPT !.pc = "sup_fork"]]
    /\ UNCHANGED <<pidfile, written, autorestart, nextPid, nStarts, nStops, nEnvSig>>

\* start(), top of the loop: if hasattr(cls, 'child_pid'): delattr(cls, 'child_pid')
SupClearChild(p) ==
    /\ At(p, "sup_loop")
    /\ proc' = [proc EXCEPT ![p] = [@ EXCEPT !.child_pid = NoPid, !.pc = "sup_fork"]]
    /\ UNCHANGED <<pidfile, written, autorestart, nextPid, nStarts, nStops, nEnvSig>>

\* start(): pid = os.fork()
SupFork(p) ==
    /\ At(p, "sup_fork")
    /\ Fork(p, "sup_assign", "sup_child")
    /\ UNCHANGED <<pidfile, written, autorestart, nStarts, nStops, nEnvSig>>

\* start(): os.fork() raised OSError: "Agent fork failed", sys.exit(1)
SupForkFails(p) ==
    /\ At(p, "sup_fork")
    /\ SysExit(p, 1, "fork_failed")
    /\ UNCHANGED <<written, autorestart, nextPid, nStarts, nStops, nEnvSig>>

\* start(), parent: cls.child_pid = pid
SupAssign(p) ==
    /\ At(p, "sup_assign")
    /\ proc' = [proc EXCEPT ![p] = [@ EXCEPT !.child_pid = proc[p].fork_pid, !.pc = "sup_poll"]]
    /\ UNCHANGED <<pidfile, written, autorestart, nextPid, nStarts, nStops, nEnvSig>>

\* start(), parent: "while not cls.need_stop" ends the poll without a waitpid.
SupPollStop(p) ==
    /\ At(p, "sup_poll") /\ proc[p].need_stop
    /\ proc' = [proc EXCEPT ![p] = [@ EXCEPT !.pc = "sup_hook"]]
    /\ UNCHANGED <<pidfile, written, autorestart, nextPid, nStarts, nStops, nEnvSig>>

\* Variant: a poll that ends although the child still runs.
SupPollLeaves(p) ==
    /\ At(p, "sup_poll") /\ Exists(proc[p].fork_pid)
    /\ proc' = [proc EXCEPT ![p] = [@ EXCEPT !.wstatus = 0, !.pc = "sup_hook"]]
    /\ UNCHANGED <<pidfile, written, autorestart, nextPid, nStarts, nStops, nEnvSig>>

\* start(), parent: os.waitpid(pid, WNOHANG) reports the child's exit (whatever
\* its status) and reaps it. While the child runs, waitpid gives (0, 0) and the
\* parent sleeps and polls again. The flag may have been set since the loop
\* last tested it.
SupPollReap(p) ==
    /\ At(p, "sup_poll") /\ proc[proc[p].fork_pid].life = "zombie"
    /\ proc' = [proc EXCEPT
          ![p] = [@ EXCEPT !.wstatus = proc[proc[p].fork_pid].status, !.pc = "sup_hook"],
          ![proc[p].fork_pid] = Reaped([@ EXCEPT !.status = -1, !.ended = ""])]
    /\ UNCHANGED <<pidfile, written, autorestart, nextPid, nStarts, nStops, nEnvSig>>

\* start(), parent: if parent_func is not None: parent_func()
SupHook(p) ==
    /\ At(p, "sup_hook")
    /\ proc' = [proc EXCEPT ![p] = [@ EXCEPT
          !.hook_calls = IF proc[p].parent_func THEN @ + 1 ELSE @, !.pc = "sup_check"]]
    /\ UNCHANGED <<pidfile, written, autorestart, nextPid, nStarts, nStops, nEnvSig>>

\* start(), parent: "if cls.need_stop: break": the only test that ends the loop.
\* Variants: a loop that reforks only after RESTART_EXIT_STATUS; a loop that
\* never tests the stop-flag.
SupBreaksUnlessRestart(p) == proc[p].need_stop \/ proc[p].wstatus # RESTART_EXIT_STATUS
SupBreaksNever(p) == FALSE /\ proc[p].need_stop

SupBreaks(p) == proc[p].need_stop

SupBreak(p) ==
    /\ At(p, "sup_check") /\ SupBreaks(p)
    /\ proc' = [proc EXCEPT ![p] = [@ EXCEPT !.pc = "sup_exit"]]
    /\ UNCHANGED <<pidfile, written, autorestart, nextPid, nStarts, nStops, nEnvSig>>

SupAgain(p) ==
    /\ At(p, "sup_check") /\ ~SupBreaks(p)
    /\ proc' = [proc EXCEPT ![p] = [@ EXCEPT !.pc = "sup_loop"]]
    /\ UNCHANGED <<pidfile, written, autorestart, nextPid, nStarts, nStops, nEnvSig>>

\* start(), after the loop, parent: if pid > 0: sys.exit(0)
SupExit(p) ==
    /\ At(p, "sup_exit")
    /\ SysExit(p, 0, "sup_exit")
    /\ UNCHANGED <<written, autorestart, nextPid, nStarts, nStops, nEnvSig>>

\* start(), child: child_func() if supplied; else break, and with pid = 0 start()
\* returns: daemonize() returns to Daemon.start(), which writes the PID file.
SupChild(p) ==
    /\ At(p, "sup_child")
    /\ proc' = [proc EXCEPT ![p] = [@ EXCEPT
          !.pc = IF proc[p].child_func THEN "child_func" ELSE "write_pidfile"]]
    /\ UNCHANGED <<pidfile, written, autorestart, nextPid, nStarts, nStops, nEnvSig>>

\* ---------------------------------------------------------------- signals
\* os.kill(target, SIGTERM) as the kernel answers it to process p.
KillResult(p, target) ==
    IF ~Exists(target) THEN "ESRCH"
    ELSE IF ~proc[p].may_signal THEN "EPERM" ELSE "ok"

\* The process table after a SIGTERM was queued for target.
Signalled(table, target) ==
    IF target \in Pids /\ table[target].life = "alive"
    THEN [table EXCEPT ![target] = [@ EXCEPT !.sig = TRUE]]
    ELSE table

\* Someone other than stop() sends SIGTERM to a process of the supervisor
\* (kill, a shutdown, a test).
EnvSigterm(p) ==
    /\ nEnvSig < MaxEnvSig
    /\ Alive(p) /\ ~proc[p].sig
    /\ proc' = Signalled(proc, p)
    /\ nEnvSig' = nEnvSig + 1
    /\ UNCHANGED <<pidfile, written, autorestart, nextPid, nStarts, nStops>>

\* SIGTERM with the default disposition kills the process.
DefaultSigterm(p) ==
    /\ Alive(p) /\ proc[p].sig /\ proc[p].handler = "default"
    /\ Killed(p)
    /\ UNCHANGED <<written, autorestart, nextPid, nStarts, nStops, nEnvSig>>

\* _handle_sigterm, hasattr(cls, 'child_pid'): os.kill(cls.child_pid, SIGTERM);
\* cls.need_stop = True
HandleSigtermForward(p) ==
    /\ Alive(p) /\ proc[p].sig /\ proc[p].handler = "sup"
    /\ proc[p].child_pid # NoPid /\ Exists(proc[p].child_pid)
    /\ proc' = Signalled([proc EXCEPT ![p] = [@ EXCEPT !.sig = FALSE, !.need_stop = TRUE]],
                         proc[p].child_pid)
    /\ UNCHANGED <<pidfile, written, autorestart, nextPid, nStarts, nStops, nEnvSig>>

\* _handle_sigterm, hasattr(cls, 'child_pid'), but the child was reaped: os.kill
\* raises OSError (ESRCH) where the signal interrupted start(); inside the
\* loop's try it is caught as a failed fork and the process exits 1, after the
\* loop it is uncaught and the process exits 1 as well. need_stop is not set.
HandleSigtermNoSuchChild(p) ==
    /\ Alive(p) /\ proc[p].sig /\ proc[p].handler = "sup"
    /\ proc[p].child_pid # NoPid /\ ~Exists(proc[p].child_pid)
    /\ SysExit(p, 1, "kill_failed")
    /\ UNCHANGED <<written, autorestart, nextPid, nStarts, nStops, nEnvSig>>

\* _handle_sigterm, no child_pid attribute ("in the child"): sys.exit(0)
HandleSigtermExit(p) ==
    /\ Alive(p) /\ proc[p].sig /\ proc[p].handler = "sup"
    /\ proc[p].child_pid = NoPid
    /\ SysExit(p, 0, "sigterm_exit")
    /\ UNCHANGED <<written, autorestart, nextPid, nStarts, nStops, nEnvSig>>

\* ------------------------------------------------------------- Daemon.stop
\* The shell launches a process that calls Daemon.stop(); its user may or may
\* not be allowed to signal the daemon's processes.
InvokeStop(allowed) ==
    /\ nStops < MaxStops /\ ~CommandRunning
    /\ PidsLeftFor(1)
    /\ proc' = [proc EXCEPT ![nextPid] =
          [Unborn EXCEPT !.life = "alive", !.prog = "stop", !.pc = "stop",
                         !.pgid = nextPid, !.may_signal = allowed]]
    /\ nextPid' = nextPid + 1 /\ nStops' = nStops + 1
    /\ UNCHANGED <<pidfile, written, autorestart, nStarts, nEnvSig>>

\* stop(): pid = self.pid()
StopReadPid(p) ==
    /\ At(p, "stop")
    /\ proc' = [proc EXCEPT ![p] = [@ EXCEPT
          !.pid = ReadPid(pidfile), !.fresh = ~written, !.pc = "stop_clear"]]
    /\ UNCHANGED <<pidfile, written, autorestart, nextPid, nStarts, nStops, nEnvSig>>

\* stop(): "if pid > 1", and which signalling branch is taken.
\* Variant: stop() without the "pid > 1" test.
StopBranchUnguarded(p) == IF autorestart THEN "stop_kill_supervisor" ELSE "stop_kill"

StopBranch(p) ==
    IF PyGreaterThanOne(proc[p].pid)
    THEN IF autorestart THEN "stop_kill_supervisor" ELSE "stop_kill"
    ELSE "stop_not_running"

\* stop(): if os.path.exists(self.pidfile): os.remove(self.pidfile)
StopClear(p) ==
    /\ At(p, "stop_clear")
    /\ pidfile' = Absent
    /\ written' = FALSE
    /\ proc' = [proc EXCEPT ![p] = [@ EXCEPT !.pc = StopBranch(p)]]
    /\ UNCHANGED <<autorestart, nextPid, nStarts, nStops, nEnvSig>>

\* stop()'s "except OSError as err": every OSError of the signalling is caught
\* (and logged unless it says "No such process"); none leaves stop().
\* Variant: stop() catching only "No such process".
StopCatchesNoSuchProcess(err) == err = "ESRCH"

StopCatches(err) == err \in {"ESRCH", "EPERM"}
AfterKill(res) == IF res = "ok" \/ StopCatches(res) THEN "stop_done" ELSE "stop_raised"

\* The processes of process group g the kernel knows.
Group(g) == {q \in Pids : Exists(q) /\ proc[q].pgid = g}

\* The target of stop()'s first signal with auto-restart:
\* os.kill(os.getpgid(pid), SIGTERM) signals the one process whose PID is the
\* group's id (the group leader), not the members of the group.
\* Variant: os.killpg, which signals every member of the group.
GroupTarget(n) == Group(proc[n].pgid)

SupervisorTarget(n) == {proc[n].pgid}

\* stop(), auto-restart: os.kill(os.getpgid(pid), signal.SIGTERM). If getpgid
\* raises (no such pid), so does the getpgid of the handler's log line, and the
\* outer handler ends stop() with nothing signalled.
StopKillSupervisor(p) ==
    /\ At(p, "stop_kill_supervisor")
    /\ LET n == proc[p].pid.v IN
       IF ~Exists(n)
       THEN proc' = [proc EXCEPT ![p] = [@ EXCEPT !.pc = AfterKill("ESRCH")]]
       ELSE LET res == KillResult(p, proc[n].pgid)
                me == [proc[p] EXCEPT
                         !.kills = Append(@, [to |-> SupervisorTarget(n), res |-> res,
                                              leader |-> proc[n].pgid,
                                              group |-> Group(proc[n].pgid)]),
                         !.pc = IF res = "ok" THEN "stop_done" ELSE "stop_kill_pid"]
            IN proc' = [q \in Pids |->
                         IF q = p THEN me
                         ELSE IF res = "ok" /\ q \in SupervisorTarget(n) /\ Alive(q)
                              THEN [proc[q] EXCEPT !.sig = TRUE]
                              ELSE proc[q]]
    /\ UNCHANGED <<pidfile, written, autorestart, nextPid, nStarts, nStops, nEnvSig>>

\* stop(), auto-restart, the first kill raised: the log line's os.getpgid(pid)
\* (raising if the pid is gone by now), then os.kill(pid, signal.SIGTERM).
\* stop(), no auto-restart: os.kill(pid, signal.SIGTERM).
StopKillPid(p) ==
    /\ Alive(p) /\ proc[p].pc \in {"stop_kill_pid", "stop_kill"}
    /\ LET n == proc[p].pid.v
           res == KillResult(p, n)
       IN IF proc[p].pc = "stop_kill_pid" /\ ~Exists(n)
          THEN proc' = [proc EXCEPT ![p] = [@ EXCEPT !.pc = AfterKill("ESRCH")]]
          ELSE proc' = Signalled(
                   [proc EXCEPT ![p] = [@ EXCEPT
                       !.kills = Append(@, [to |-> {n}, res |-> res, leader |-> NoPid,
                                            group |-> {}]),
                       !.pc = AfterKill(res)]],
                   IF res = "ok" THEN n ELSE NoPid)
    /\ UNCHANGED <<pidfile, written, autorestart, nextPid, nStarts, nStops, nEnvSig>>

\* stop(), no valid PID: "Pidfile does not exist. Not running?", a second
\* removal of the file if it exists, return.
StopNotRunning(p) ==
    /\ At(p, "stop_not_running")
    /\ pidfile' = Absent
    /\ written' = FALSE
    /\ proc' = [proc EXCEPT ![p] = [@ EXCEPT !.pc = "stop_done"]]
    /\ UNCHANGED <<autorestart, nextPid, nStarts, nStops, nEnvSig>>

\* stop() has returned; the command ends.
StopReturn(p) ==
    /\ At(p, "stop_done")
    /\ SysExit(p, 0, "returned")
    /\ UNCHANGED <<written, autorestart, nextPid, nStarts, nStops, nEnvSig>>

\* ------------------------------------------------------------------ Next
Next ==
    \/ \E fg \in BOOLEAN : InvokeStart(fg)
    \/ \E allowed \in BOOLEAN : InvokeStop(allowed)
    \/ \E p \in Pids :
         \/ StartReadPid(p) \/ StartRefuse(p) \/ StartProceed(p)
         \/ DaemonizeFork1(p) \/ DaemonizeParentExit(p) \/ DaemonizeForkFails(p)
         \/ DaemonizeDecouple(p) \/ DaemonizeFork2(p)
         \/ write_pidfile(p) \/ WritePidfileFails(p)
         \/ \E st \in ExitStatuses : RunExits(p, st)
         \/ RunKilled(p)
         \/ SupStart(p) \/ SupClearChild(p) \/ SupFork(p) \/ SupForkFails(p)
         \/ SupAssign(p) \/ SupPollStop(p) \/ SupPollReap(p) \/ SupHook(p)
         \/ SupBreak(p) \/ SupAgain(p) \/ SupExit(p) \/ SupChild(p)
         \/ DefaultSigterm(p)
         \/ HandleSigtermForward(p) \/ HandleSigtermNoSuchChild(p) \/ HandleSigtermExit(p)
         \/ StopReadPid(p) \/ StopClear(p) \/ StopKillSupervisor(p) \/ StopKillPid(p)
         \/ StopNotRunning(p) \/ StopReturn(p)

Spec == Init /\ [][Next]_vars

\* start() alone, with nothing failing and nobody interfering: every process
\* that can take a step of start(), daemonize() or the supervisor's first
\* iteration eventually takes it.
StartStep(p) ==
    \/ StartReadPid(p) \/ StartRefuse(p) \/ StartProceed(p)
    \/ DaemonizeFork1(p) \/ DaemonizeParentExit(p) \/ DaemonizeDecouple(p)
    \/ DaemonizeFork2(p)
    \/ SupStart(p) \/ SupClearChild(p) \/ SupFork(p) \/ SupAssign(p) \/ SupChild(p)
    \/ write_pidfile(p)

NextStart == (\E fg \in BOOLEAN : InvokeStart(fg)) \/ (\E p \in Pids : StartStep(p))

StartSpec == Init /\ [][NextStart]_vars /\ \A p \in Pids : WF_vars(StartStep(p))

\* The supervisor alone, with its hooks: the steps of AgentSupervisor.start, of
\* the child in child_func, and the signals. The parent's own steps and the
\* handling of a pending signal are taken eventually; a child_func that
\* always exits eventually does.
SupStep(p) ==
    \/ SupStart(p) \/ SupClearChild(p) \/ SupFork(p)
    \/ SupAssign(p) \/ SupPollStop(p) \/ SupPollReap(p) \/ SupHook(p)
    \/ SupBreak(p) \/ SupAgain(p) \/ SupExit(p) \/ SupChild(p)
    \/ HandleSigtermForward(p) \/ HandleSigtermNoSuchChild(p) \/ HandleSigtermExit(p)

NextSup ==
    \E p \in Pids :
         \/ SupStep(p)
         \/ SupForkFails(p)
         \/ \E st \in ExitStatuses : RunExits(p, st)
         \/ RunKilled(p)
         \/ EnvSigterm(p)

SupSpec ==
    /\ InitSup /\ [][NextSup]_vars
    /\ \A p \in Pids : WF_vars(SupStep(p)) /\ WF_vars(\E st \in ExitStatuses : RunExits(p, st))

\* Daemon.start() with auto-restart, the daemon's life after it and the signals
\* it may get: every process that can take a step of its code eventually
\* takes it, and a pending signal is eventually handled.
RestartStep(p) ==
    \/ StartReadPid(p) \/ StartRefuse(p) \/ StartProceed(p)
    \/ DaemonizeFork1(p) \/ DaemonizeParentExit(p) \/ DaemonizeDecouple(p)
    \/ SupStart(p) \/ SupClearChild(p) \/ SupFork(p) \/ SupAssign(p) \/ SupChild(p)
    \/ write_pidfile(p)
    \/ SupPollStop(p) \/ SupPollReap(p) \/ SupHook(p)
    \/ SupBreak(p) \/ SupAgain(p) \/ SupExit(p)
    \/ DefaultSigterm(p)
    \/ HandleSigtermForward(p) \/ HandleSigtermNoSuchChild(p) \/ HandleSigtermExit(p)

NextRestart ==
    \/ InvokeStart(FALSE)
    \/ \E p \in Pids :
         \/ RestartStep(p)
         \/ \E st \in ExitStatuses : RunExits(p, st)
         \/ RunKilled(p)
         \/ EnvSigterm(p)

InitRestart == Init /\ autorestart = TRUE

RestartSpec ==
    /\ InitRestart
    /\ [][NextRestart]_vars
    /\ \A p \in Pids : WF_vars(RestartStep(p))

\* The same without signals: the daemon's workers end, one after the other,
\* and the supervising parent forks their replacements.
ReforkStep(p) ==
    \/ StartReadPid(p) \/ StartRefuse(p) \/ StartProceed(p)
    \/ DaemonizeFork1(p) \/ DaemonizeParentExit(p) \/ DaemonizeDecouple(p)
    \/ SupStart(p) \/ SupClearChild(p) \/ SupFork(p) \/ SupAssign(p) \/ SupChild(p)
    \/ write_pidfile(p)
    \/ SupPollReap(p) \/ SupHook(p) \/ SupAgain(p)

NextRefork ==
    \/ InvokeStart(FALSE)
    \/ \E p \in Pids :
         \/ ReforkStep(p)
         \/ \E st \in ExitStatuses : RunExits(p, st)
         \/ RunKilled(p)

ReforkSpec ==
    /\ InitRestart
    /\ [][NextRefork]_vars
    /\ \A p \in Pids : WF_vars(ReforkStep(p))

\* stop() alone: stop commands, one after the other, in every initial world.
StopStep(p) ==
    \/ StopReadPid(p) \/ StopClear(p) \/ StopKillSupervisor(p) \/ StopKillPid(p)
    \/ StopNotRunning(p) \/ StopReturn(p)

NextStop == (\E allowed \in BOOLEAN : InvokeStop(allowed)) \/ (\E p \in Pids : StopStep(p))

StopSpec == Init /\ [][NextStop]_vars

\* ---------------------------------------------------------- Daemon.restart
\* The shell launches a process that calls Daemon.restart(): self.stop()
InvokeRestart(allowed) ==
    /\ nStarts < MaxStarts /\ nStops < MaxStops /\ ~CommandRunning
    /\ PidsLeftFor(3)
    /\ proc' = [proc EXCEPT ![nextPid] =
          [Unborn EXCEPT !.life = "alive", !.prog = "stop", !.pc = "stop",
                         !.pgid = nextPid, !.may_signal = allowed]]
    /\ nextPid' = nextPid + 1 /\ nStops' = nStops + 1
    /\ UNCHANGED <<pidfile, written, autorestart, nStarts, nEnvSig>>

\* restart(): stop() has returned; self.start()
RestartStart(p) ==
    /\ At(p, "stop_done") /\ nStarts < MaxStarts
    /\ proc' = [proc EXCEPT ![p] = [@ EXCEPT
          !.prog = "start", !.pc = "start", !.foreground = FALSE, !.pid = None]]
    /\ nStarts' = nStarts + 1
    /\ UNCHANGED <<pidfile, written, autorestart, nextPid, nStops, nEnvSig>>

NextRestartCommand ==
    \/ \E allowed \in BOOLEAN : InvokeRestart(allowed)
    \/ \E p \in Pids :
         \/ StopReadPid(p) \/ StopClear(p) \/ StopKillSupervisor(p) \/ StopKillPid(p)
         \/ StopNotRunning(p)
         \/ RestartStart(p)
         \/ StartReadPid(p) \/ StartRefuse(p) \/ StartProceed(p)
         \/ DaemonizeFork1(p) \/ DaemonizeParentExit(p)
         \/ DaemonizeDecouple(p) \/ DaemonizeFork2(p)
         \/ write_pidfile(p)
         \/ \E st \in ExitStatuses : RunExits(p, st)
         \/ SupStart(p) \/ SupClearChild(p) \/ SupFork(p)
         \/ SupAssign(p) \/ SupPollStop(p) \/ SupPollReap(p) \/ SupHook(p)
         \/ SupBreak(p) \/ SupAgain(p) \/ SupExit(p) \/ SupChild(p)
         \/ DefaultSigterm(p)
         \/ HandleSigtermForward(p) \/ HandleSigtermNoSuchChild(p) \/ HandleSigtermExit(p)

RestartCommandSpec == Init /\ [][NextRestartCommand]_vars

\* --------------------------------- Daemon.pid, write_pidfile, delpid alone
\* One process calls write_pidfile (its os.getpid() being any PID value),
\* delpid and pid() in any order, on a PID file that holds anything to begin
\* with: nothing, or any text of up to MaxTextLen characters.
TextChars == {"0", "7", "x", "-", " ", "\n"}
RECURSIVE Texts(_)
Texts(n) == IF n = 0 THEN {<<>>}
            ELSE Texts(n - 1) \cup {Append(t, c) : t \in Texts(n - 1), c \in TextChars}

InitPidFile ==
    /\ autorestart = FALSE
    /\ pidfile \in {Absent} \cup {File(t) : t \in Texts(MaxTextLen)}
    /\ proc = [p \in Pids |->
          IF p = 2 THEN [Unborn EXCEPT !.life = "alive", !.prog = "pidfile", !.pc = "found"]
          ELSE Unborn]
    /\ nextPid = 3
    /\ written = FALSE
    /\ nStarts = 0 /\ nStops = 0 /\ nEnvSig = 0

\* write_pidfile() in a process whose PID is n: fp.write(str(pid))
PidFileWrite(p, n) ==
    /\ Alive(p) /\ proc[p].prog = "pidfile"
    /\ proc' = [proc EXCEPT ![p] = [@ EXCEPT
          !.atexit = TRUE, !.wrote = n, !.pid = None, !.pc = "written"]]
    /\ pidfile' = File(IntToStr(n))
    /\ written' = TRUE
    /\ UNCHANGED <<autorestart, nextPid, nStarts, nStops, nEnvSig>>

\* delpid(): os.remove(self.pidfile), an OSError (no such file) being passed over.
PidFileDelete(p) ==
    /\ Alive(p) /\ proc[p].prog = "pidfile"
    /\ proc' = [proc EXCEPT ![p] = [@ EXCEPT !.wrote = -1, !.pid = None, !.pc = "deleted"]]
    /\ pidfile' = Absent
    /\ written' = FALSE
    /\ UNCHANGED <<autorestart, nextPid, nStarts, nStops, nEnvSig>>

\* pid()
PidFileRead(p) ==
    /\ Alive(p) /\ proc[p].prog = "pidfile" /\ proc[p].pc \in {"found", "written", "deleted"}
    /\ proc' = [proc EXCEPT ![p] = [@ EXCEPT
          !.pid = ReadPid(pidfile), !.pc = CASE proc[p].pc = "found" -> "read_found"
                                             [] proc[p].pc = "written" -> "read_written"
                                             [] proc[p].pc = "deleted" -> "read_deleted"]]
    /\ UNCHANGED <<pidfile, written, autorestart, nextPid, nStarts, nStops, nEnvSig>>

NextPidFile ==
    \E p \in Pids :
        \/ \E n \in 1..MaxPidValue : PidFileWrite(p, n)
        \/ PidFileDelete(p)
        \/ PidFileRead(p)

PidFileSpec == InitPidFile /\ [][NextPidFile]_vars

\* ----------------------------------------------------------- ProcessRunner
\* A process, in its main thread, calls ProcessRunner().execute(args, redirect).
InitRunner ==
    /\ autorestart = FALSE /\ pidfile = Absent
    /\ \E r \in BOOLEAN :
         proc = [p \in Pids |->
            IF p = 2 THEN [Unborn EXCEPT !.life = "alive", !.prog = "runner", !.pc = "execute",
                                         !.pgid = 2, !.running = TRUE, !.redirect = r]
            ELSE Unborn]
    /\ nextPid = 3
    /\ written = FALSE
    /\ nStarts = 0 /\ nStops = 0 /\ nEnvSig = 0

Runner(p) == Alive(p) /\ proc[p].prog = "runner"

\* execute(): subprocess.Popen(...) spawns the command; caught signals are
\* reset to their default in the command.
RunnerSpawn(p) ==
    /\ Runner(p) /\ proc[p].pc = "execute" /\ nextPid \in Pids
    /\ proc' = [proc EXCEPT
          ![p] = [@ EXCEPT !.fork_pid = nextPid, !.forked = @ + 1, !.pc = "assign"],
          ![nextPid] = [Unborn EXCEPT !.life = "alive", !.prog = "cmd", !.pc = "cmd",
                                      !.ppid = p, !.pgid = proc[p].pgid]]
    /\ nextPid' = nextPid + 1
    /\ UNCHANGED <<pidfile, written, autorestart, nStarts, nStops, nEnvSig>>

\* execute(): Popen raised: log.exception("Could not launch process"); raise
RunnerSpawnFails(p) ==
    /\ Runner(p) /\ proc[p].pc = "execute"
    /\ proc' = [proc EXCEPT ![p] = [@ EXCEPT !.pc = "raised", !.ended = "launch_failed"]]
    /\ UNCHANGED <<pidfile, written, autorestart, nextPid, nStarts, nStops, nEnvSig>>

\* execute(): self._process = process; self._running = True
RunnerAssign(p) ==
    /\ Runner(p) /\ proc[p].pc = "assign"
    /\ proc' = [proc EXCEPT ![p] = [@ EXCEPT
          !.tracked = proc[p].fork_pid, !.running = TRUE, !.pc = "register"]]
    /\ UNCHANGED <<pidfile, written, autorestart, nextPid, nStarts, nStops, nEnvSig>>

\* execute(): self.register_signal_handlers(): SIGTERM and SIGINT to _handle_sigterm
RunnerRegister(p) ==
    /\ Runner(p) /\ proc[p].pc = "register"
    /\ proc' = [proc EXCEPT ![p] = [@ EXCEPT !.handler = "runner", !.pc = "wait"]]
    /\ UNCHANGED <<pidfile, written, autorestart, nextPid, nStarts, nStops, nEnvSig>>

\* execute(): self._process.wait() returns once the command has exited (it
\* is retried when a signal interrupts it); self._running = False
RunnerWait(p) ==
    /\ Runner(p) /\ proc[p].pc = "wait" /\ proc[proc[p].tracked].life = "zombie"
    /\ proc' = [proc EXCEPT
          ![p] = [@ EXCEPT !.wstatus = proc[proc[p].tracked].status, !.running = FALSE,
                           !.pc = IF proc[p].redirect THEN "write_out" ELSE "return"],
          ![proc[p].tracked] = Reaped(@)]
    /\ UNCHANGED <<pidfile, written, autorestart, nextPid, nStarts, nStops, nEnvSig>>

\* Variant: the order in which execute() reads the two files back.
ReadOrder == <<"stderr", "stdout">>
\* The order in which execute() writes what it read back from the two files.
CopyOrder == <<"stdout", "stderr">>
Captured(r, which) == IF which = "stdout" THEN r.cap_out ELSE r.cap_err

\* execute(), redirected: err and out are read back; sys.stdout.write(out)
RunnerWriteOut(p) ==
    /\ Runner(p) /\ proc[p].pc = "write_out"
    /\ proc' = [proc EXCEPT ![p] = [@ EXCEPT
          !.stream = Append(@, <<CopyOrder[1], Captured(proc[p], CopyOrder[1])>>),
          !.pc = "write_err"]]
    /\ UNCHANGED <<pidfile, written, autorestart, nextPid, nStarts, nStops, nEnvSig>>

\* execute(), redirected: sys.stderr.write(err)
RunnerWriteErr(p) ==
    /\ Runner(p) /\ proc[p].pc = "write_err"
    /\ proc' = [proc EXCEPT ![p] = [@ EXCEPT
          !.stream = Append(@, <<CopyOrder[2], Captured(proc[p], CopyOrder[2])>>),
          !.pc = "return"]]
    /\ UNCHANGED <<pidfile, written, autorestart, nextPid, nStarts, nStops, nEnvSig>>

\* execute(): the temporary files are closed; return self._process.returncode
RunnerReturn(p) ==
    /\ Runner(p) /\ proc[p].pc = "return"
    /\ proc' = [proc EXCEPT ![p] = [@ EXCEPT !.result = Some(proc[p].wstatus), !.pc = "returned"]]
    /\ UNCHANGED <<pidfile, written, autorestart, nextPid, nStarts, nStops, nEnvSig>>

\* The command writes a chunk to its stdout or stderr: into the temporary file
\* when redirected, else straight to the stream it inherited.
CmdWrites(c, which) ==
    /\ Alive(c) /\ proc[c].prog = "cmd" /\ proc[c].nout < MaxChunks
    /\ LET r == proc[c].ppid
           n == proc[c].nout + 1
       IN proc' = [proc EXCEPT
             ![c] = [@ EXCEPT !.nout = n],
             ![r] = IF ~Alive(r) THEN @
                    ELSE IF ~proc[r].redirect THEN [@ EXCEPT !.stream = Append(@, <<which, <<n>>>>)]
                    ELSE IF which = "stdout" THEN [@ EXCEPT !.cap_out = Append(@, n)]
                    ELSE [@ EXCEPT !.cap_err = Append(@, n)]]
    /\ UNCHANGED <<pidfile, written, autorestart, nextPid, nStarts, nStops, nEnvSig>>

\* The command exits of its own.
CmdExits(c, st) ==
    /\ Alive(c) /\ proc[c].prog = "cmd"
    /\ Terminated(c, st, "cmd", FALSE)
    /\ UNCHANGED <<written, autorestart, nextPid, nStarts, nStops, nEnvSig>>

\* Someone sends SIGINT to the process running execute().
EnvSigint(p) ==
    /\ nEnvSig < MaxEnvSig
    /\ Runner(p) /\ ~proc[p].sigint
    /\ proc' = [proc EXCEPT ![p] = [@ EXCEPT !.sigint = TRUE]]
    /\ nEnvSig' = nEnvSig + 1
    /\ UNCHANGED <<pidfile, written, autorestart, nextPid, nStarts, nStops>>

\* SIGINT before the handlers are registered: Python raises KeyboardInterrupt,
\* which "except Exception" does not catch: execute() is left by it.
RunnerKeyboardInterrupt(p) ==
    /\ Runner(p) /\ proc[p].sigint /\ proc[p].handler = "default"
    /\ proc[p].pc \notin {"raised", "returned"}
    /\ proc' = [proc EXCEPT ![p] = [@ EXCEPT
          !.sigint = FALSE, !.pc = "raised", !.ended = "KeyboardInterrupt"]]
    /\ UNCHANGED <<pidfile, written, autorestart, nextPid, nStarts, nStops, nEnvSig>>

\* _handle_sigterm -> terminate(): if self._process: self._process.terminate(),
\* which is os.kill(pid, SIGTERM); on a command already reaped it raises
\* OSError, which leaves execute() through "except Exception: ...; raise".
RunnerHandleSignal(p) ==
    /\ Runner(p) /\ (proc[p].sig \/ proc[p].sigint) /\ proc[p].handler = "runner"
    /\ proc[p].pc \notin {"raised", "returned"}
    /\ LET me == [proc[p] EXCEPT !.sig = FALSE, !.sigint = FALSE]
           c == proc[p].tracked
       IN IF c = NoPid THEN proc' = [proc EXCEPT ![p] = me]
          ELSE IF Exists(c) THEN proc' = Signalled([proc EXCEPT ![p] = me], c)
          ELSE proc' = [proc EXCEPT ![p] = [me EXCEPT !.pc = "raised", !.ended = "kill_failed"]]
    /\ UNCHANGED <<pidfile, written, autorestart, nextPid, nStarts, nStops, nEnvSig>>

RunnerStep(p) ==
    \/ RunnerSpawn(p) \/ RunnerAssign(p) \/ RunnerRegister(p) \/ RunnerWait(p)
    \/ RunnerWriteOut(p) \/ RunnerWriteErr(p) \/ RunnerReturn(p)
    \/ RunnerHandleSignal(p) \/ RunnerKeyboardInterrupt(p)
    \/ DefaultSigterm(p)

NextRunner ==
    \E p \in Pids :
        \/ RunnerStep(p)
        \/ RunnerSpawnFails(p)
        \/ \E which \in {"stdout", "stderr"} : CmdWrites(p, which)
        \/ \E st \in ExitStatuses : CmdExits(p, st)
        \/ EnvSigterm(p) \/ EnvSigint(p)

\* The runner's steps are taken and the signals pending on it are handled.
RunnerSpec ==
    /\ InitRunner /\ [][NextRunner]_vars
    /\ \A p \in Pids : WF_vars(RunnerStep(p))

\* The two components that own a child process, each in a world of its own: a
\* caller of AgentSupervisor.start, or a caller of ProcessRunner.execute.
InitOwner == InitSup \/ InitRunner

NextOwner == NextSup \/ NextRunner

OwnerSpec == InitOwner /\ [][NextOwner]_vars

\* ------------------------------------------------------- KubernetesTopology
INSTANCE_TYPE == "kubernetes"

\* The topology instances of a check: one record per instance key, holding the
\* components and relations emitted for it, in order.
TopologyInstance(key) ==
    [instance |-> key, components |-> <<>>, relations |-> <<>>,
     start_snapshot |-> FALSE, stop_snapshot |-> FALSE]

WithInstance(topo, key) ==
    IF \E i \in 1..Len(topo) : topo[i].instance = key THEN topo
    ELSE Append(topo, TopologyInstance(key))

start_snapshot(topo, key) ==
    LET T == WithInstance(topo, key)
    IN [i \in 1..Len(T) |->
          IF T[i].instance = key THEN [T[i] EXCEPT !.start_snapshot = TRUE] ELSE T[i]]

stop_snapshot(topo, key) ==
    LET T == WithInstance(topo, key)
    IN [i \in 1..Len(T) |->
          IF T[i].instance = key THEN [T[i] EXCEPT !.stop_snapshot = TRUE] ELSE T[i]]

component(topo, key, id, type, data) ==
    LET T == WithInstance(topo, key)
    IN [i \in 1..Len(T) |->
          IF T[i].instance = key
          THEN [T[i] EXCEPT !.components = Append(@, [id |-> id, type |-> type, data |-> data])]
          ELSE T[i]]

relation(topo, key, source_id, target_id, type, data) ==
    LET T == WithInstance(topo, key)
    IN [i \in 1..Len(T) |->
          IF T[i].instance = key
          THEN [T[i] EXCEPT !.relations = Append(@, [sourceId |-> source_id, targetId |-> target_id,
                                                      type |-> type, data |-> data])]
          ELSE T[i]]

\* dict(): an empty dictionary
EmptyDict == [k \in {} |-> k]

\* _extract_nodes: one KUBERNETES_NODE component per node, from item k on
RECURSIVE extract_nodes(_, _, _, _)
extract_nodes(topo, key, nodes, k) ==
    IF k > Len(nodes) THEN topo
    ELSE extract_nodes(
            component(topo, key, nodes[k].metadata.name, [name |-> "KUBERNETES_NODE"], EmptyDict),
            key, nodes, k + 1)

\* _extract_containers: per container status, from status k on, a
\* KUBERNETES_CONTAINER component and a HOSTED_ON relation to the pod
RECURSIVE extract_containers(_, _, _, _, _, _, _)
extract_containers(topo, key, pod_uid, pod_ip, host_ip, statuses, k) ==
    IF k > Len(statuses) THEN topo
    ELSE LET container_id == statuses[k].containerID
             data == [ip_addresses |-> <<pod_ip, host_ip>>,
                      docker |-> [image |-> statuses[k].image, container_id |-> container_id]]
             withComponent == component(topo, key, container_id,
                                        [name |-> "KUBERNETES_CONTAINER"], data)
             withRelation == relation(withComponent, key, container_id, pod_uid,
                                      [name |-> "HOSTED_ON"], EmptyDict)
         IN extract_containers(withRelation, key, pod_uid, pod_ip, host_ip, statuses, k + 1)

\* _extract_pods: per pod, from item k on, a KUBERNETES_POD component, a
\* HOSTED_ON relation to its node and, if it has container statuses, its containers
RECURSIVE extract_pods(_, _, _, _)
extract_pods(topo, key, pods, k) ==
    IF k > Len(pods) THEN topo
    ELSE LET pod == pods[k]
             pod_uid == pod.metadata.uid
             withComponent == component(topo, key, pod_uid, [name |-> "KUBERNETES_POD"],
                                        [uid |-> pod_uid])
             withRelation == relation(withComponent, key, pod_uid, pod.spec.nodeName,
                                      [name |-> "HOSTED_ON"], EmptyDict)
             withContainers ==
                 IF "containerStatuses" \in DOMAIN pod.status
                 THEN extract_containers(withRelation, key, pod_uid, pod.status.podIP,
                                         pod.status.hostIP, pod.status.containerStatuses, 1)
                 ELSE withRelation
         IN extract_pods(withContainers, key, pods, k + 1)

\* check(instance)
check(topo, nodes, pods) ==
    LET instance_key == [type |-> INSTANCE_TYPE]
        started == start_snapshot(topo, instance_key)
        withNodes == extract_nodes(started, instance_key, nodes, 1)
        withPods == extract_pods(withNodes, instance_key, pods, 1)
    IN stop_snapshot(withPods, instance_key)

\* What the Kubernetes API may answer: up to MaxNodes nodes, up to MaxPods pods
\* on the first node, each with up to MaxContainers container statuses or with
\* no 'containerStatuses' key (n < 0).
NodeItem(j) == [metadata |-> [name |-> <<"node", j>>]]
ContainerStatus(i, k) == [containerID |-> <<"docker", i, k>>, image |-> <<"image", k>>]
PodItem(i, n) ==
    [metadata |-> [uid |-> <<"pod", i>>],
     spec |-> [nodeName |-> <<"node", 1>>],
     status |-> IF n < 0 THEN [podIP |-> <<"ip", i>>, hostIP |-> <<"ip", 0>>]
                ELSE [podIP |-> <<"ip", i>>, hostIP |-> <<"ip", 0>>,
                      containerStatuses |-> [k \in 1..n |-> ContainerStatus(i, k)]]]
NodesLists == {[j \in 1..m |-> NodeItem(j)] : m \in 0..MaxNodes}
PodsLists ==
    UNION {{[i \in 1..m |-> PodItem(i, f[i])] : f \in [1..m -> -1..MaxContainers]} : m \in 0..MaxPods}

InitKube ==
    /\ autorestart = FALSE /\ pidfile = Absent
    /\ \E nodes \in NodesLists, pods \in PodsLists :
         proc = [p \in Pids |->
            IF p = 2 THEN [Unborn EXCEPT !.life = "alive", !.prog = "kube", !.pc = "check",
                                         !.pgid = 2, !.nodes_list = nodes, !.pods_list = pods]
            ELSE Unborn]
    /\ nextPid = 3
    /\ written = FALSE
    /\ nStarts = 0 /\ nStops = 0 /\ nEnvSig = 0

\* run_check: one run of check() on a new check object
KubeCheck(p) ==
    /\ Alive(p) /\ proc[p].prog = "kube" /\ proc[p].pc = "check"
    /\ proc' = [proc EXCEPT ![p] = [@ EXCEPT
          !.topology = check(proc[p].topology, proc[p].nodes_list, proc[p].pods_list),
          !.pc = "checked"]]
    /\ UNCHANGED <<pidfile, written, autorestart, nextPid, nStarts, nStops, nEnvSig>>

NextKube == \E p \in Pids : KubeCheck(p)

KubeSpec == InitKube /\ [][NextKube]_vars

\* ------------------------------------------------------------ SavedSearches
\* The names of saved searches Splunk may report, and the patterns a
\* configuration may hold: literal texts, which re.match finds at the start of
\* a name (the empty pattern matches every name).
SearchNames == {<<"a">>, <<"a", "b">>, <<"b">>}
MatchPatterns == {<<>>, <<"a">>, <<"a", "b">>, <<"b">>}
\* None, for a name or a pattern that is not set
NoneText == <<"None">>

\* re.match(pattern, name) is not None
ReMatch(pattern, name) ==
    Len(pattern) <= Len(name) /\ SubSeq(name, 1, Len(pattern)) = pattern

\* SplunkSavedSearch(instance_config, saved_search_instance): 'name' wins over 'match'
SplunkSavedSearch(entry) ==
    IF entry.key = "name" THEN [name |-> entry.text, match |-> NoneText]
    ELSE [name |-> NoneText, match |-> entry.text]

ConfigEntries ==
    {[key |-> "name", text |-> n] : n \in SearchNames}
       \cup {[key |-> "match", text |-> m] : m \in MatchPatterns}
Configurations == UNION {[1..k -> ConfigEntries] : k \in 0..MaxConfigured}

\* SavedSearches.__init__
NamedOf(saved_searches) == SelectSeq(saved_searches, LAMBDA ss : ss.name # NoneText)
MatchesOf(saved_searches) == SelectSeq(saved_searches, LAMBDA ss : ss.match # NoneText)

\* update_searches, "Drop missing matches"
DropMissing(searches, saved_searches) ==
    SelectSeq(searches, LAMBDA s : s.match = NoneText \/ s.name \in saved_searches)

\* update_searches, the inner loop: the index of the first pattern that
\* matches, from pattern j on (0: none does)
RECURSIVE LastMatch(_, _, _)
LastMatch(matches, new_search, j) ==
    IF j > Len(matches) THEN 0
    ELSE LET later == LastMatch(matches, new_search, j + 1)
         IN IF later # 0 THEN later
            ELSE IF ReMatch(matches[j].match, new_search) THEN j ELSE 0

RECURSIVE FirstMatch(_, _, _)
FirstMatch(matches, new_search, j) ==
    IF j > Len(matches) THEN 0
    ELSE IF ReMatch(matches[j].match, new_search) THEN j
    ELSE FirstMatch(matches, new_search, j + 1)

\* update_searches, "Match new searches": the new names in the order the set
\* yields them, from the k-th on
RECURSIVE MatchNew(_, _, _, _)
MatchNew(searches, matches, order, k) ==
    IF k > Len(order) THEN searches
    ELSE LET j == FirstMatch(matches, order[k], 1)
         IN MatchNew(IF j = 0 THEN searches
                     ELSE Append(searches, [matches[j] EXCEPT !.name = order[k]]),
                     matches, order, k + 1)

\* The orders in which iterating a set may yield its members.
Orders(set) ==
    {f \in [1..Cardinality(set) -> set] : \A i, j \in 1..Cardinality(set) : f[i] = f[j] => i = j}

\* "Filter already instantiated searches"
NewSearches(kept, saved_searches) == saved_searches \ {kept[i].name : i \in 1..Len(kept)}

InitSearches ==
    /\ autorestart = FALSE /\ pidfile = Absent
    /\ \E config \in Configurations :
         LET saved_searches == [i \in 1..Len(config) |-> SplunkSavedSearch(config[i])]
         IN proc = [p \in Pids |->
               IF p = 2 THEN [Unborn EXCEPT !.life = "alive", !.prog = "splunk", !.pc = "searches",
                                            !.pgid = 2,
                                            !.configured = saved_searches,
                                            !.searches = NamedOf(saved_searches),
                                            !.matches = MatchesOf(saved_searches)]
               ELSE Unborn]
    /\ nextPid = 3
    /\ written = FALSE
    /\ nStarts = 0 /\ nStops = 0 /\ nEnvSig = 0

\* update_searches(log, saved_searches)
update_searches(p, saved_searches) ==
    /\ Alive(p) /\ proc[p].prog = "splunk" /\ proc[p].calls < MaxCalls
    /\ LET kept == DropMissing(proc[p].searches, saved_searches)
       IN \E order \in Orders(NewSearches(kept, saved_searches)) :
            proc' = [proc EXCEPT ![p] = [@ EXCEPT
               !.searches = MatchNew(kept, proc[p].matches, order, 1),
               !.observed = saved_searches,
               !.calls = @ + 1]]
    /\ UNCHANGED <<pidfile, written, autorestart, nextPid, nStarts, nStops, nEnvSig>>

NextSearches == \E p \in Pids : \E saved_searches \in SUBSET SearchNames : update_searches(p, saved_searches)

SearchesSpec == InitSearches /\ [][NextSearches]_vars

\* ----------------------------------------------------------- Daemon.status
\* The shell launches a process that calls Daemon.status(); its user may or
\* may not be allowed to signal the daemon's processes.
StatusInvoked == \E q \in Pids : proc[q].prog = "status"

InvokeStatus(allowed) ==
    /\ ~StatusInvoked /\ ~CommandRunning
    /\ PidsLeftFor(1)
    /\ proc' = [proc EXCEPT ![nextPid] =
          [Unborn EXCEPT !.life = "alive", !.prog = "status", !.pc = "status",
                         !.pgid = nextPid, !.may_signal = allowed]]
    /\ nextPid' = nextPid + 1
    /\ UNCHANGED <<pidfile, written, autorestart, nStarts, nStops, nEnvSig>>

\* status(): pid = self.pid()
StatusReadPid(p) ==
    /\ At(p, "status")
    /\ proc' = [proc EXCEPT ![p] = [@ EXCEPT !.pid = ReadPid(pidfile), !.pc = "status_check"]]
    /\ UNCHANGED <<pidfile, written, autorestart, nextPid, nStarts, nStops, nEnvSig>>

\* status(): if pid < 0: message = '%s is not running'; exit_code = 1
StatusNotRunning(p) ==
    /\ At(p, "status_check") /\ PyLessThanZero(proc[p].pid)
    /\ proc' = [proc EXCEPT ![p] = [@ EXCEPT
          !.message = <<"is not running">>, !.exit_code = 1, !.pc = "status_report"]]
    /\ UNCHANGED <<pidfile, written, autorestart, nextPid, nStarts, nStops, nEnvSig>>

\* os.kill(n, 0) as the kernel answers it to process p: 0 addresses p's own
\* process group, 1 is init, which always exists.
ProbeResult(p, n) ==
    IF n = 0 THEN "ok"
    ELSE IF n = 1 THEN (IF proc[p].may_signal THEN "ok" ELSE "EPERM")
    ELSE KillResult(p, n)

\* status(), else: os.kill(pid, 0); OSError with errno EPERM, another OSError,
\* or no error.
StatusMessage(res, n) ==
    CASE res = "ok" -> <<"is running with pid", n>>
      [] res = "EPERM" -> <<"You do not have sufficient permissions">>
      [] OTHER -> <<"pidfile contains pid, but no running process could be found", n>>

StatusProbe(p) ==
    /\ At(p, "status_check") /\ ~PyLessThanZero(proc[p].pid)
    /\ LET n == proc[p].pid.v
           res == ProbeResult(p, n)
       IN proc' = [proc EXCEPT ![p] = [@ EXCEPT
             !.message = StatusMessage(res, n),
             !.exit_code = IF res = "ok" THEN 0 ELSE 1,
             !.pc = "status_report"]]
    /\ UNCHANGED <<pidfile, written, autorestart, nextPid, nStarts, nStops, nEnvSig>>

\* status(): log.info(message); sys.stdout.write(message); sys.exit(exit_code)
StatusExit(p) ==
    /\ At(p, "status_report")
    /\ SysExit(p, proc[p].exit_code, "status")
    /\ UNCHANGED <<written, autorestart, nextPid, nStarts, nStops, nEnvSig>>

\* status() against whatever start() and the daemon left: the daemon may end
\* while status() runs.
StatusStep(p) == StatusReadPid(p) \/ StatusNotRunning(p) \/ StatusProbe(p) \/ StatusExit(p)

NextStatus ==
    \/ \E allowed \in BOOLEAN : InvokeStatus(allowed)
    \/ \E p \in Pids :
         \/ StatusStep(p)
         \/ \E st \in ExitStatuses : RunExits(p, st)
         \/ RunKilled(p)

StatusSpec == Init /\ [][NextStatus]_vars

\* ================================================================ claims
InRun(p) == Alive(p) /\ proc[p].prog = "start" /\ proc[p].pc = "run"
StopCaller(p) == Alive(p) /\ proc[p].prog = "stop"
\* Process p handles its pending SIGTERM in this step.
HandlesSigterm(p) ==
    /\ Alive(p) /\ proc[p].sig /\ proc[p].handler = "sup"
    /\ \/ proc'[p].life = "alive" /\ ~proc'[p].sig
       \/ proc'[p].ended \in {"kill_failed", "sigterm_exit"}
\* Process p, in the parent role, has seen its last child exit and reaped it.
ChildReaped(p) ==
    /\ Alive(p) /\ proc[p].handler = "sup" /\ proc[p].forked > 0
    /\ proc[p].pc \in {"sup_hook", "sup_check", "sup_loop", "sup_fork"}
    /\ ~Exists(proc[p].fork_pid)

\* C1: in every reachable state in which a worker started through start() is in
\* run(), the PID file exists and holds that worker's PID; and when stop() has
\* returned the PID file does not exist.
C1_PidFileInvariant ==
    /\ \A p \in Pids : InRun(p) => pidfile = File(IntToStr(p))
    /\ \A q \in Pids : (StopCaller(q) /\ proc[q].pc = "stop_done") => ~pidfile.exists

\* C2: when start() finds in the PID file the PID of a live agent process, its
\* next step ends the process with status 1, without a fork before or in that
\* step, without reaching run(), and with the PID file as it was (no delpid
\* runs at that exit).
C2_RefuseDoubleStart ==
    [][\A p \in Pids :
         (/\ At(p, "start_check")
          /\ PyTruthy(proc[p].pid) /\ is_my_process(proc[p].pid.v)
          /\ proc'[p] # proc[p])
         => /\ proc'[p].life # "alive" /\ proc'[p].status = 1
            /\ proc'[p].ended = "refused"
            /\ proc[p].forked = 0 /\ nextPid' = nextPid
            /\ pidfile' = pidfile]_vars

C2_Witness == \E p \in Pids : proc[p].ended = "refused" /\ pidfile.exists

\* C3: when start() finds in the PID file a PID that is no live agent process,
\* it goes on, and eventually a process of this start() is in run() with the PID
\* file holding its PID.
C3_StaleStartProceeds ==
    \A p \in Pids :
        (At(p, "start_check") /\ proc[p].pid.ok /\ ~is_my_process(proc[p].pid.v))
        ~> (\E w \in Pids : /\ w >= p /\ InRun(w) /\ proc[w].stale_start
                             /\ pidfile = File(IntToStr(w)))

C3_Witness ==
    \E w \in Pids : /\ InRun(w) /\ proc[w].stale_start /\ proc[w].ppid # NoPid
                     /\ pidfile = File(IntToStr(w))

\* C4: a supervising parent that ends because of a SIGTERM ends with status 0
\* (never through the failed os.kill of its handler), and every child of such a
\* parent that is still alive has been sent SIGTERM.
C4_SigtermStopsParentAndChild ==
    /\ \A q \in Pids : proc[q].ended # "kill_failed"
    /\ \A c \in Pids :
         (/\ Alive(c) /\ proc[c].ppid \in Pids
          /\ proc[proc[c].ppid].ended \in {"sup_exit", "sigterm_exit"})
         => proc[c].sig

C6_SignalForwarding ==
    [][\A p \in Pids :
         (HandlesSigterm(p) /\ proc[p].child_pid # NoPid)
         => /\ proc'[p].life = "alive" /\ proc'[p].need_stop
            /\ Alive(proc[p].child_pid) => proc'[proc[p].child_pid].sig]_vars

\* C7: once the stop-flag of a supervisor process is true, the process
\* eventually ends, and no process forks in the supervisor loop with its
\* stop-flag true.
C7_SupervisorStopsOnFlag ==
    /\ \A p \in Pids : (Alive(p) /\ proc[p].need_stop) ~> ~Alive(p)
    /\ [][\A p \in Pids : proc'[p].forked > proc[p].forked => ~proc[p].need_stop]_vars

C7_Witness ==
    \E p \in Pids : Alive(p) /\ proc[p].hook_calls >= 2 /\ ~proc[p].need_stop

\* C8: stop() has signalled nothing before it removed the PID file; no error of
\* the signalling leaves stop(); and from the removal on, the PID file exists
\* only if some process wrote it since.
C8_StopRemovesFileFirst ==
    \A p \in Pids :
        StopCaller(p) =>
            /\ proc[p].pc \in {"stop", "stop_clear"} => proc[p].kills = <<>>
            /\ proc[p].pc # "stop_raised"
            /\ (proc[p].pc \notin {"stop", "stop_clear"} /\ pidfile.exists) => written

C8_Witness ==
    \E p \in Pids : /\ StopCaller(p) /\ proc[p].pc = "stop_done" /\ ~pidfile.exists
                     /\ proc[p].kills # <<>>
                     /\ proc[p].kills[Len(proc[p].kills)].res = "EPERM"

\* C9 as claimed: with auto-restart, the first signal of stop() goes to the
\* process group of the PID read: every process of the group is signalled.
C9_StopSignalsGroup ==
    \A p \in Pids :
        (StopCaller(p) /\ autorestart /\ proc[p].kills # <<>>)
        => proc[p].kills[1].to = proc[p].kills[1].group

\* C9 as amended: with auto-restart, the first signal of stop() goes to the one
\* process whose PID is the group id of the PID read, a second one is sent
\* only after the first failed and goes to the PID itself; without
\* auto-restart the only signal goes to the PID itself. Only a PID greater
\* than 1 is signalled for.
C9_StopSignalsLeader ==
    \A p \in Pids :
        StopCaller(p) =>
            LET k == proc[p].kills
                n == proc[p].pid.v
            IN /\ k # <<>> => PyGreaterThanOne(proc[p].pid)
               /\ autorestart =>
                    /\ Len(k) <= 2
                    /\ Len(k) >= 1 => k[1].to = {k[1].leader}
                    /\ Len(k) = 2 => k[1].res # "ok" /\ k[2].to = {n}
                    /\ (Len(k) = 1 /\ k[1].res # "ok") => proc[p].pc \in {"stop_kill_pid", "stop_done"}
               /\ ~autorestart =>
                    /\ Len(k) <= 1
                    /\ Len(k) = 1 => k[1].to = {n}
                    /\ (proc[p].pc = "stop_done" /\ PyGreaterThanOne(proc[p].pid)) => Len(k) = 1

C9_Witness ==
    \E p \in Pids : /\ StopCaller(p) /\ autorestart /\ Len(proc[p].kills) = 1
                     /\ proc[p].kills[1].res = "ok"
                     /\ Cardinality(proc[p].kills[1].group) = 2

\* C10: a stop() that read no integer from the PID file (missing, empty, not a
\* number) takes the not-running branch, signals nothing, raises nothing and
\* leaves no PID file of its own; and a stop() that begins with no write of the
\* PID file since an earlier stop() removed it reads no PID.
C10_IdempotentStop ==
    \A p \in Pids :
        (StopCaller(p) /\ proc[p].pc \notin {"stop", "stop_clear"}) =>
            /\ ~proc[p].pid.ok =>
                 /\ proc[p].pc \in {"stop_not_running", "stop_done"}
                 /\ proc[p].kills = <<>>
                 /\ (proc[p].pc = "stop_done" /\ pidfile.exists) => written
            /\ proc[p].fresh => ~proc[p].pid.ok

C10_Witness ==
    \E p \in Pids : /\ StopCaller(p) /\ proc[p].pc = "stop_done" /\ proc[p].fresh
                     /\ ~proc[p].pid.ok /\ ~pidfile.exists /\ nStops = 2

\* C11: the message and the exit code status() leaves with are determined by
\* what pid() returned and by the answer of os.kill(pid, 0): no integer or a
\* negative one gives "is not running" and 1; an answer without error gives
\* "is running with pid N" and 0; EPERM gives the permissions message and 1;
\* any other error gives "pidfile contains pid N, but no running process could
\* be found" and 1; and the process then exits with that code.
C11_StatusOutcome ==
    [][\A p \in Pids :
         /\ (At(p, "status_check") /\ proc'[p] # proc[p]) =>
              LET r == proc[p].pid
                  absent == ~r.ok \/ r.v < 0
                  probe == ProbeResult(p, r.v)
                  m == proc'[p].message
                  e == proc'[p].exit_code
              IN /\ proc'[p].life = "alive" /\ proc'[p].pc = "status_report"
                 /\ absent => m = <<"is not running">> /\ e = 1
                 /\ (~absent /\ probe = "ok") => m = <<"is running with pid", r.v>> /\ e = 0
                 /\ (~absent /\ probe = "EPERM") =>
                      m = <<"You do not have sufficient permissions">> /\ e = 1
                 /\ (~absent /\ probe \notin {"ok", "EPERM"}) =>
                      /\ m = <<"pidfile contains pid, but no running process could be found", r.v>>
                      /\ e = 1
                 /\ e = 0 <=> (~absent /\ probe = "ok")
         /\ (At(p, "status_report") /\ proc'[p] # proc[p]) =>
              /\ proc'[p].life # "alive" /\ proc'[p].status = proc[p].exit_code
              /\ pidfile' = pidfile]_vars

C11_Witness ==
    \E p \in Pids : /\ At(p, "status_report") /\ proc[p].exit_code = 1
                     /\ proc[p].pid.ok /\ proc[p].pid.v \in Pids
                     /\ Len(proc[p].message) = 2 /\ proc[p].may_signal
                     /\ proc[proc[p].pid.v].prog = "start"

\* Process p is in AgentSupervisor.start in the parent role: its last fork
\* returned a positive id.
ParentRole(p) == Alive(p) /\ proc[p].handler = "sup" /\ proc[p].fork_pid # NoPid
SupPcs == {"sup_start", "sup_loop", "sup_fork", "sup_assign", "sup_poll", "sup_hook",
           "sup_check", "sup_exit", "sup_child"}

\* C12: a process in the parent role stays in AgentSupervisor.start until it
\* exits, and once its stop-flag is set it exits with status 0; a process in
\* the child role, with child_func absent, leaves the loop alive, returning to
\* the caller of start() (which goes on to write_pidfile), and never takes the
\* parent's exit.
C12_SupervisorExitRoles ==
    [][\A p \in Pids :
         /\ (ParentRole(p) /\ proc'[p].life = "alive") => proc'[p].pc \in SupPcs
         /\ (ParentRole(p) /\ proc[p].need_stop /\ proc'[p].life # "alive")
            => proc'[p].status = 0
         /\ (At(p, "sup_child") /\ ~proc[p].child_func /\ proc'[p].life = "alive"
               /\ proc'[p].pc # "sup_child")
            => proc'[p].pc = "write_pidfile"
         /\ (At(p, "sup_child") /\ proc'[p].life # "alive")
            => proc'[p].ended = "sigterm_exit"]_vars

\* C13: with auto-restart, daemonize() goes from setsid to
\* AgentSupervisor.start(None, None) without a fork of its own; a process in
\* the parent role is never outside AgentSupervisor.start, has not registered
\* delpid and its PID is not in the PID file; and every child the supervisor
\* forks eventually is in run() with the PID file holding its PID.
C13_AutorestartDaemonize ==
    /\ [](\A p \in Pids : ParentRole(p) =>
            /\ proc[p].pc \in SupPcs /\ ~proc[p].atexit
            /\ pidfile # File(IntToStr(p)))
    /\ [][\A p \in Pids :
            (At(p, "decouple") /\ autorestart /\ proc'[p].pc # "decouple"
               /\ proc'[p].life = "alive")
            => /\ proc'[p].pc = "sup_start"
               /\ nextPid' = nextPid
               /\ ~proc'[p].parent_func /\ ~proc'[p].child_func]_vars
    /\ \A c \in Pids :
         At(c, "sup_child")
         ~> (InRun(c) /\ pidfile = File(IntToStr(c)))

C13_Witness ==
    \E p \in Pids, c \in Pids :
        /\ ParentRole(p) /\ proc[p].forked >= 2 /\ proc[p].fork_pid = c
        /\ InRun(c) /\ proc[c].ppid = p /\ pidfile = File(IntToStr(c))

\* The process the shell launched, of which p is a descendant, and the number
\* of forks between the two.
RECURSIVE Root(_)
Root(p) == IF proc[p].ppid \in Pids THEN Root(proc[p].ppid) ELSE p
RECURSIVE Generation(_)
Generation(p) == IF proc[p].ppid \in Pids THEN 1 + Generation(proc[p].ppid) ELSE 0
\* Process p has returned from daemonize() of a start() without auto-restart.
Returned(p) ==
    /\ Alive(p) /\ proc[p].prog = "start" /\ ~proc[p].foreground
    /\ proc[p].pc \in {"write_pidfile", "run"}
    /\ proc[p].pgid # StalePid

\* C14: without auto-restart, a process of start() exits 0 after its fork in
\* daemonize(); the child of the first fork goes to "/" and leads a new
\* session before it forks; a process that has returned from daemonize() is a
\* grandchild of the invoking process, has not forked, is in the session of its
\* parent and does not lead it; no two processes of one start() have returned;
\* and an invoking process at the first fork eventually has a grandchild in run().
C14_DoubleFork ==
    /\ [](~autorestart =>
            /\ \A p \in Pids :
                 /\ Returned(p) =>
                      /\ Generation(p) = 2 /\ proc[p].forked = 0
                      /\ proc[p].pgid = proc[p].ppid /\ proc[p].pgid # p
                      /\ proc[p].cwd = "/"
                 /\ At(p, "fork2") => Generation(p) = 1 /\ proc[p].pgid = p /\ proc[p].cwd = "/"
                 /\ At(p, "exit_parent") => proc[p].forked = 1 /\ Generation(p) \in {0, 1}
            /\ \A p \in Pids, q \in Pids :
                 (Returned(p) /\ Returned(q) /\ Root(p) = Root(q)) => p = q)
    /\ [][~autorestart =>
            \A p \in Pids :
               /\ (At(p, "exit_parent") /\ proc'[p] # proc[p])
                  => proc'[p].life # "alive" /\ proc'[p].status = 0
               /\ (At(p, "decouple") /\ proc'[p] # proc[p])
                  => /\ proc'[p].life = "alive" /\ proc'[p].pc = "fork2"
                     /\ proc'[p].pgid = p /\ proc'[p].cwd = "/"
                     /\ nextPid' = nextPid]_vars
    /\ \A p \in Pids :
         (At(p, "fork1") /\ ~autorestart)
         ~> (\E w \in Pids : InRun(w) /\ Generation(w) = 2 /\ Root(w) = p)

C14_Witness ==
    \E w \in Pids : /\ ~autorestart /\ InRun(w) /\ Generation(w) = 2
                     /\ proc[proc[w].ppid].ended = "detached"
                     /\ proc[Root(w)].ended = "detached"
                     /\ pidfile = File(IntToStr(w))

\* C15: a process enters run() only in the step in which write_pidfile has
\* written its own PID to the PID file (delpid registered); a process whose
\* write fails ends in that step with status 1, from write_pidfile, and so is
\* never in run(); and every process in run() has registered delpid.
C15_PidFileBeforeRun ==
    /\ [][\A p \in Pids :
            /\ (Alive(p) /\ proc[p].prog = "start" /\ proc[p].pc # "run"
                  /\ proc'[p].life = "alive" /\ proc'[p].pc = "run")
               => /\ proc[p].pc = "write_pidfile"
                  /\ pidfile' = File(IntToStr(p))
                  /\ ReadPid(pidfile') = Some(p)
                  /\ proc'[p].atexit
            /\ (proc[p].ended # "write_failed" /\ proc'[p].ended = "write_failed")
               => /\ At(p, "write_pidfile")
                  /\ proc'[p].life # "alive" /\ proc'[p].status = 1]_vars
    /\ [](\A p \in Pids : InRun(p) => proc[p].atexit /\ proc[p].ended # "write_failed")

C15_Witness ==
    \E p \in Pids, q \in Pids :
        /\ proc[p].ended = "write_failed" /\ proc[p].status = 1
        /\ InRun(q) /\ proc[q].ppid \in Pids /\ pidfile = File(IntToStr(q))

\* C16: a process whose fork fails (in daemonize() or in the supervisor's
\* loop) ends in that step with status 1, no PID being allocated; and a process
\* that ends with status 1 in the supervisor's loop, not being in the child
\* role, ends so by a failed fork.
C16_ForkFailureFatal ==
    [][\A p \in Pids :
         /\ (proc[p].ended # "fork_failed" /\ proc'[p].ended = "fork_failed")
            => /\ Alive(p) /\ proc[p].pc \in {"fork1", "fork2", "sup_fork"}
               /\ proc'[p].life # "alive" /\ proc'[p].status = 1
               /\ nextPid' = nextPid
         /\ (/\ Alive(p) /\ proc[p].handler = "sup"
             /\ proc[p].pc \in SupPcs \ {"sup_child"}
             /\ proc'[p].life # "alive" /\ proc'[p].status = 1)
            => proc'[p].ended = "fork_failed"]_vars

\* The text of file f is not a number: it is empty or blank, or holds a
\* character that is no digit, sign or blank.
NonNumeric(f) ==
    \/ \A i \in 1..Len(f.text) : f.text[i] \in {" ", "\n"}
    \/ \E i \in 1..Len(f.text) : ~IsDigit(f.text[i]) /\ f.text[i] \notin {"-", "+", " ", "\n"}

\* C17: pid() after write_pidfile recorded PID n returns n; pid() after delpid()
\* returns None; pid() on a missing, empty, blank or non-numeric file returns None.
C17_PidFileRoundTrip ==
    \A p \in Pids :
        (Alive(p) /\ proc[p].prog = "pidfile") =>
            /\ proc[p].pc = "read_written" =>
                 /\ proc[p].wrote \in 1..MaxPidValue
                 /\ proc[p].pid = Some(proc[p].wrote)
            /\ proc[p].pc = "read_deleted" => proc[p].pid = None /\ ~pidfile.exists
            /\ (proc[p].pc \in {"read_found", "read_written", "read_deleted"}
                  /\ (~pidfile.exists \/ NonNumeric(pidfile)))
               => proc[p].pid = None

C17_Witness ==
    \E p \in Pids : /\ proc[p].pc = "read_written" /\ proc[p].wrote = MaxPidValue
                     /\ proc[p].pid = Some(MaxPidValue)

\* The command spawned by execute() in process p has exited.
CommandExited(p) ==
    /\ proc[p].fork_pid \in Pids
    /\ proc[proc[p].fork_pid].life \in {"zombie", "gone"}

\* C18: execute() does not return before the spawned command has exited and
\* returns the command's exit code; with redirection on, nothing is written to
\* the parent's streams before the command has exited, and what is written is
\* the captured stdout, to stdout, then the captured stderr, to stderr; once
\* the command has exited, execute() returns unless a signal's handler raises.
C18_ExecuteOrdering ==
    /\ [](\A p \in Pids :
            (Alive(p) /\ proc[p].prog = "runner") =>
               /\ proc[p].result # None =>
                    /\ CommandExited(p)
                    /\ proc[p].result = Some(proc[proc[p].fork_pid].status)
               /\ (proc[p].redirect /\ proc[p].stream # <<>>) => CommandExited(p)
               /\ (proc[p].redirect /\ proc[p].result # None) =>
                    proc[p].stream = << <<"stdout", proc[p].cap_out>>,
                                        <<"stderr", proc[p].cap_err>> >>
               /\ (proc[p].redirect /\ Len(proc[p].stream) = 1) =>
                    proc[p].stream[1] = <<"stdout", proc[p].cap_out>>)
    /\ \A p \in Pids :
          (Alive(p) /\ proc[p].prog = "runner" /\ proc[p].pc = "wait" /\ CommandExited(p))
             ~> (proc[p].pc = "returned" \/ proc[p].ended = "kill_failed")

C18_Witness ==
    \E p \in Pids :
        /\ proc[p].prog = "runner" /\ proc[p].redirect /\ proc[p].pc = "returned"
        /\ proc[p].result = Some(RESTART_EXIT_STATUS)
        /\ Len(proc[p].cap_out) = 1 /\ Len(proc[p].cap_err) = 1
        /\ Len(proc[p].stream) = 2

\* C19: from the spawn of the command until its exit, a SIGTERM or SIGINT that
\* the process running execute() takes makes it send a termination request to
\* the command.
C19_SignalForwarding ==
    [][\A p \in Pids :
         (/\ Alive(p) /\ proc[p].prog = "runner"
          /\ proc[p].fork_pid \in Pids /\ Alive(proc[p].fork_pid)
          /\ \/ proc[p].sig /\ ~proc'[p].sig
             \/ proc[p].sigint /\ ~proc'[p].sigint)
         => proc'[proc[p].fork_pid].sig]_vars

\* The number of container statuses of the pods from item k on.
RECURSIVE ContainerCount(_, _)
ContainerCount(pods, k) ==
    IF k > Len(pods) THEN 0
    ELSE (IF "containerStatuses" \in DOMAIN pods[k].status
          THEN Len(pods[k].status.containerStatuses) ELSE 0) + ContainerCount(pods, k + 1)

\* C20: one run of check() yields exactly one topology instance, keyed
\* {type: kubernetes}, whose components are the pods and their container
\* statuses, one component each, and whose relations list is empty.
C20_KubeTopology ==
    \A p \in Pids :
        (proc[p].prog = "kube" /\ proc[p].pc = "checked") =>
            /\ Len(proc[p].topology) = 1
            /\ proc[p].topology[1].instance = [type |-> "kubernetes"]
            /\ Len(proc[p].topology[1].components)
                  = Len(proc[p].pods_list) + ContainerCount(proc[p].pods_list, 1)
            /\ \A i \in 1..Len(proc[p].topology[1].components) :
                  proc[p].topology[1].components[i].type.name
                     \in {"KUBERNETES_POD", "KUBERNETES_CONTAINER"}
            /\ proc[p].topology[1].relations = <<>>

\* Process p is in the child role of AgentSupervisor.start(None, None): the
\* fork returned 0 there, and it has left or is leaving the loop.
ChildRole(p) ==
    /\ Alive(p) /\ proc[p].handler = "sup" /\ proc[p].fork_pid = NoPid
    /\ ~proc[p].child_func
    /\ proc[p].pc \in {"sup_child", "write_pidfile", "run"}

\* C21: in a process of the child role (child_func absent) the tracked child
\* PID is unset and the stop-flag is not set, for the rest of its life; a
\* SIGTERM handled there exits the process with status 0, and no step of such
\* a process sends a signal to another process.
C21_ChildRoleSigterm ==
    /\ [](\A p \in Pids : ChildRole(p) => proc[p].child_pid = NoPid /\ ~proc[p].need_stop)
    /\ [][\A p \in Pids :
            ChildRole(p) =>
               /\ proc'[p].life = "alive" => ChildRole(p)'
               /\ HandlesSigterm(p) =>
                    /\ proc'[p].life # "alive" /\ proc'[p].status = 0
                    /\ proc'[p].ended = "sigterm_exit"
               /\ proc'[p] # proc[p] =>
                    \A q \in Pids \ {p} : proc'[q].sig => proc[q].sig]_vars

C21_Witness ==
    \E p \in Pids :
        /\ proc[p].life = "zombie" /\ proc[p].ended = "sigterm_exit" /\ proc[p].status = 0
        /\ proc[p].ppid \in Pids /\ Alive(proc[p].ppid)
        /\ proc[proc[p].ppid].handler = "sup" /\ proc[proc[p].ppid].forked > 1

\* The children of process p that the kernel still knows (live or not reaped).
Children(p) == {q \in Pids : proc[q].ppid = p /\ Exists(q)}

\* C22: the supervising parent has at most one live or un-reaped child at a
\* time, forks only when the child of the previous fork has been reaped, and
\* its tracked child PID, when set, is the PID of the child it forked last.
C22_OneChildAtATime ==
    /\ [](\A p \in Pids :
            (Alive(p) /\ proc[p].handler = "sup" /\ proc[p].pc \in SupPcs) =>
               /\ Cardinality(Children(p)) <= 1
               /\ Children(p) \subseteq {proc[p].fork_pid}
               /\ proc[p].child_pid # NoPid => proc[p].child_pid = proc[p].fork_pid)
    /\ [][\A p \in Pids :
            (At(p, "sup_fork") /\ proc'[p].forked = proc[p].forked + 1) =>
               /\ Children(p) = {}
               /\ proc[p].forked > 0 => proc[proc[p].fork_pid].life = "gone"
               /\ proc'[p].fork_pid = nextPid /\ proc'[nextPid].ppid = p]_vars

C22_Witness ==
    \E p \in Pids :
        /\ Alive(p) /\ proc[p].handler = "sup" /\ proc[p].forked > 1
        /\ proc[p].child_pid = proc[p].fork_pid /\ Alive(proc[p].fork_pid)
        /\ proc[proc[p].fork_pid - 1].ppid = p /\ proc[proc[p].fork_pid - 1].life = "gone"

\* C23: once the owner has reaped its child (waitpid reporting the exit in
\* AgentSupervisor.start, wait() returning in execute()) it tracks that child
\* no longer, and no signal handler sends a signal to a reaped PID.
C23_HandleDroppedOnReap ==
    [][\A p \in Pids :
         Alive(p) =>
            /\ (proc[p].handler = "sup" /\ proc[p].pc = "sup_poll"
                  /\ proc'[p].life = "alive" /\ proc'[proc[p].fork_pid].life = "gone")
               => proc'[p].child_pid = NoPid
            /\ (proc[p].prog = "runner" /\ proc[p].pc = "wait"
                  /\ proc'[p].life = "alive" /\ proc'[proc[p].fork_pid].life = "gone")
               => proc'[p].tracked = NoPid
            /\ proc'[p].ended # "kill_failed"]_vars

\* C24: parent_func, when supplied, is invoked in the parent once per fork
\* iteration, after the poll has ended and before the decision to refork or
\* exit: once the poll has ended the parent goes on only by invoking it, every
\* fork finds one invocation per earlier fork, and a process in the child role
\* never invokes it.
C24_ParentFuncHook ==
    /\ [](\A p \in Pids :
            (Alive(p) /\ proc[p].handler = "sup" /\ proc[p].parent_func) =>
               /\ proc[p].pc \in {"sup_loop", "sup_fork", "sup_check", "sup_exit"}
                    => proc[p].hook_calls = proc[p].forked
               /\ proc[p].pc \in {"sup_assign", "sup_poll", "sup_hook"}
                    => proc[p].hook_calls = proc[p].forked - 1
               /\ proc[p].pc \in {"sup_child", "child_func"} => proc[p].hook_calls = 0)
    /\ [][\A p \in Pids :
            (At(p, "sup_hook") /\ proc[p].parent_func
               /\ (proc'[p].life # "alive" \/ proc'[p].pc # "sup_hook"))
            => /\ proc'[p].life = "alive" /\ proc'[p].pc = "sup_check"
               /\ proc'[p].hook_calls = proc[p].hook_calls + 1]_vars

\* The daemon instance whose PID the PID file holds, if it is a live process.
FileOwner == IF ReadPid(pidfile).ok /\ ReadPid(pidfile).v \in Pids /\ Alive(ReadPid(pidfile).v)
             THEN {ReadPid(pidfile).v} ELSE {}

\* C25: the PID file of a running instance is removed only by that instance's
\* own exit or by stop(): a restart() leaves the file its start() wrote in
\* place whatever the old processes do, and once the new instance is in run()
\* no other instance is.
C25_RestartKeepsPidFile ==
    /\ [][(pidfile.exists /\ ~pidfile'.exists /\ FileOwner # {}) =>
            \/ \E p \in FileOwner : proc'[p].life # "alive"
            \/ \E p \in Pids : /\ proc[p].pc \in {"stop_clear", "stop_not_running"}
                                 /\ proc'[p].pc # proc[p].pc]_vars
    /\ [](\A p \in Pids :
            (InRun(p) /\ nStarts > 0 /\ p \in FileOwner) =>
               \A q \in Pids \ {p} : ~InRun(q))

\* C26: stop() signals only with a PID greater than 1 read from the PID file:
\* an absent or non-numeric file reads as None, and with None, 0, 1 or a
\* negative number stop() takes the not-running path, calls os.kill on
\* nothing, and no process gets a signal from it.
C26_StopSignalsOnlyAboveOne ==
    /\ [](\A p \in Pids :
            (StopCaller(p) /\ proc[p].kills # <<>>) =>
               /\ proc[p].pid.ok /\ proc[p].pid.v > 1
               /\ \A i \in 1..Len(proc[p].kills) : \A t \in proc[p].kills[i].to : t > 1)
    /\ [][\A p \in Pids :
            /\ (At(p, "stop") /\ proc'[p].pc = "stop_clear"
                  /\ (~pidfile.exists \/ NonNumeric(pidfile)))
               => proc'[p].pid = None
            /\ (At(p, "stop_clear") /\ proc'[p].pc # "stop_clear"
                  /\ (~proc[p].pid.ok \/ proc[p].pid.v <= 1))
               => proc'[p].pc = "stop_not_running"
            /\ (At(p, "stop_not_running") /\ proc'[p].pc # "stop_not_running")
               => /\ proc'[p].pc = "stop_done" /\ proc'[p].kills = <<>>
                  /\ \A q \in Pids : proc'[q].sig = proc[q].sig
            /\ (~proc[p].sig /\ proc'[p].sig)
               => \E q \in Pids : /\ StopCaller(q) /\ proc[q].pid.ok /\ proc[q].pid.v > 1
                                   /\ Len(proc'[q].kills) = Len(proc[q].kills) + 1]_vars

C26_Witness ==
    \E p \in Pids :
        /\ At(p, "stop_done") /\ proc[p].pid = Some(1) /\ proc[p].kills = <<>>
        /\ ~pidfile.exists /\ \A q \in Pids : ~proc[q].sig

\* The names the configuration gives explicitly.
ConfiguredNames(r) == {r.configured[i].name : i \in 1..Len(r.configured)} \ {NoneText}

\* The searches of r are the configured named searches, in their order, and,
\* after a call, one match-derived search for every observed name that is not
\* a configured name and that some pattern matches, carrying the first pattern
\* that matches it; there is no other match-derived search.
SearchesAsObserved(r) ==
    /\ SelectSeq(r.searches, LAMBDA s : s.match = NoneText) = NamedOf(r.configured)
    /\ \A i \in 1..Len(r.searches) :
          r.searches[i].match # NoneText =>
             /\ r.calls > 0
             /\ r.searches[i].name \in r.observed \ ConfiguredNames(r)
             /\ \E j \in 1..Len(r.matches) :
                   /\ ReMatch(r.matches[j].match, r.searches[i].name)
                   /\ \A k \in 1..(j - 1) : ~ReMatch(r.matches[k].match, r.searches[i].name)
                   /\ r.searches[i] = [r.matches[j] EXCEPT !.name = r.searches[i].name]
    /\ r.calls > 0 =>
          \A n \in r.observed \ ConfiguredNames(r) :
             (\E j \in 1..Len(r.matches) : ReMatch(r.matches[j].match, n))
             => Cardinality({i \in 1..Len(r.searches) : r.searches[i].name = n}) = 1

\* A call with the names of the call before it leaves the searches as they are.
RepeatChangesNothing ==
    \A p \in Pids :
        (proc[p].prog = "splunk" /\ proc[p].calls > 0 /\ proc'[p].calls = proc[p].calls + 1
           /\ proc'[p].observed = proc[p].observed)
        => proc'[p].searches = proc[p].searches

\* C27 as stated: after any sequence of update_searches calls the searches are
\* the configured named searches plus one search, derived from the first
\* matching pattern, per observed name that is no configured name and matches
\* a pattern; no two searches share a name; a repeated call changes nothing.
C27_UpdateSearches ==
    /\ [](\A p \in Pids :
            proc[p].prog = "splunk" =>
               /\ SearchesAsObserved(proc[p])
               /\ \A i, j \in 1..Len(proc[p].searches) :
                     proc[p].searches[i].name = proc[p].searches[j].name => i = j)
    /\ [][RepeatChangesNothing]_vars

\* C27, amended: the same, but two searches share a name exactly when the
\* configuration names that search more than once: update_searches never adds
\* a search under a name that is already there.
C27_UpdateSearchesAddsNoDuplicate ==
    /\ [](\A p \in Pids :
            proc[p].prog = "splunk" =>
               /\ SearchesAsObserved(proc[p])
               /\ \A i, j \in 1..Len(proc[p].searches) :
                     (proc[p].searches[i].name = proc[p].searches[j].name /\ i # j)
                     => /\ proc[p].searches[i].match = NoneText
                        /\ proc[p].searches[j].match = NoneText)
    /\ [][RepeatChangesNothing]_vars

C27_Witness ==
    \E p \in Pids :
        /\ proc[p].prog = "splunk" /\ proc[p].calls = MaxCalls
        /\ Len(proc[p].searches) = 3 /\ Len(proc[p].matches) = 2
        /\ proc[p].matches[1].match # proc[p].matches[2].match
        /\ \E i \in 1..3 :
              /\ proc[p].searches[i].match = proc[p].matches[1].match
              /\ ReMatch(proc[p].matches[2].match, proc[p].searches[i].name)
        /\ \E i \in 1..3 : proc[p].searches[i].match = proc[p].matches[2].match

====
